---- MODULE Spec2Model ----
(***************************************************************************)
(* Resume relevance engine: text normalisation and feature extraction      *)
(* (utils/text_preprocessor.py), embedding similarity                      *)
(* (services/embedding_service.py) and the matching engine                 *)
(* (services/matching_service.py).                                         *)
(*                                                                         *)
(* Representation.  A Python str is a sequence of one-character strings,   *)
(* the value None is <<"None">>.  A float is an exact rational             *)
(* [n |-> numerator, d |-> denominator] in lowest terms with d > 0; the    *)
(* IEEE value nan is NaN.  Python lists are sequences, sets are sets and   *)
(* a dict is the sequence of its items in insertion order.                 *)
(***************************************************************************)
EXTENDS Integers, Sequences, FiniteSets, TLC

None == <<"None">>

\* f as an explicit table: each entry is evaluated once, when the table is built
Table(f) == CHOOSE g \in {f} : g = f

Range(s) == {s[i] : i \in 1..Len(s)}

\* ------------------------------------------------------------------------
\* Characters
\* ------------------------------------------------------------------------
LowerCase ==
    <<"a","b","c","d","e","f","g","h","i","j","k","l","m",
      "n","o","p","q","r","s","t","u","v","w","x","y","z">>

UpperCase ==
    <<"A","B","C","D","E","F","G","H","I","J","K","L","M",
      "N","O","P","Q","R","S","T","U","V","W","X","Y","Z">>

Digits == {"0","1","2","3","4","5","6","7","8","9"}

\* str.lower() on one character
LowerChar(c) ==
    IF \E i \in 1..Len(UpperCase) : UpperCase[i] = c
    THEN LowerCase[CHOOSE i \in 1..Len(UpperCase) : UpperCase[i] = c]
    ELSE c

\* str.lower()
Lower(s) == [i \in 1..Len(s) |-> LowerChar(s[i])]

\* the regular expression class \s
IsSpace(c) == c \in {" ", "\t", "\n"}

\* the regular expression class \w
IsWordChar(c) == c \in Range(LowerCase) \cup Range(UpperCase) \cup Digits \cup {"_"}

\* the character class of the URL pattern:
\* [a-zA-Z] | [0-9] | [$-_@.&+] | [!*\(\),] | %hh, where $-_ is the ASCII range 36..95
IsUrlChar(c) ==
    c \in Range(LowerCase) \cup Range(UpperCase) \cup Digits
          \cup {"$","%","&","'","(",")","*","+",",","-",".","/",":",";","<","=",">","?","@",
                "[","]","^","_","!"}

\* `needle in haystack` for two str
IsSubstring(needle, hay) ==
    \E i \in 1..(Len(hay) - Len(needle) + 1) : SubSeq(hay, i, i + Len(needle) - 1) = needle

\* str.split(): the maximal runs of non-whitespace characters, as (first, last) positions
WordSpans(s) ==
    {p \in (1..Len(s)) \X (1..Len(s)) :
        /\ p[1] <= p[2]
        /\ \A k \in p[1]..p[2] : ~IsSpace(s[k])
        /\ (p[1] = 1 \/ IsSpace(s[p[1] - 1]))
        /\ (p[2] = Len(s) \/ IsSpace(s[p[2] + 1]))}

\* str.split() as a list, left to right
RECURSIVE SplitFrom(_, _)
SplitFrom(s, i) ==
    IF i > Len(s) THEN << >>
    ELSE IF IsSpace(s[i]) THEN SplitFrom(s, i + 1)
    ELSE LET j == CHOOSE j \in i..Len(s) : <<i, j>> \in WordSpans(s)
         IN  <<SubSeq(s, i, j)>> \o SplitFrom(s, j + 1)

Split(s) == SplitFrom(s, 1)

\* ' '.join(words)
RECURSIVE Join(_)
Join(words) ==
    IF words = << >> THEN << >>
    ELSE IF Len(words) = 1 THEN words[1]
    ELSE words[1] \o <<" ">> \o Join(Tail(words))

\* ------------------------------------------------------------------------
\* TextPreprocessor.preprocess_text
\* ------------------------------------------------------------------------
\* re.sub(r'\s+', ' ', text)
RECURSIVE CollapseFrom(_, _)
CollapseFrom(s, i) ==
    IF i > Len(s) THEN << >>
    ELSE IF IsSpace(s[i])
         THEN (IF i > 1 /\ IsSpace(s[i - 1]) THEN << >> ELSE <<" ">>) \o CollapseFrom(s, i + 1)
         ELSE <<s[i]>> \o CollapseFrom(s, i + 1)

CollapseWhitespace(s) == CollapseFrom(s, 1)

\* s holds the characters of pattern from position i on
HasAt(s, i, pattern) ==
    i + Len(pattern) - 1 <= Len(s) /\ SubSeq(s, i, i + Len(pattern) - 1) = pattern

\* length of the match of http[s]?:// at position i, or 0
UrlSchemeLen(s, i) ==
    IF HasAt(s, i, <<"h","t","t","p","s",":","/","/">>) THEN 8
    ELSE IF HasAt(s, i, <<"h","t","t","p",":","/","/">>) THEN 7
    ELSE 0

\* length of the run of URL characters from position first on
UrlRunLen(s, first) ==
    Cardinality({j \in first..Len(s) : \A k \in first..j : IsUrlChar(s[k])})

\* the scheme must be followed by at least one URL character
UrlLen(scheme, chars) == IF scheme = 0 \/ chars = 0 THEN 0 ELSE scheme + chars

\* length of the match of http[s]?://(?:urlchar)+ that starts at position i, or 0
UrlMatchLen(s, i) == UrlLen(UrlSchemeLen(s, i), UrlRunLen(s, i + UrlSchemeLen(s, i)))

\* re.sub(url_pattern, '', text)
RECURSIVE RemoveUrlsFrom(_, _)
SkipUrl(s, i, n) ==
    IF n > 0 THEN RemoveUrlsFrom(s, i + n) ELSE <<s[i]>> \o RemoveUrlsFrom(s, i + 1)

RemoveUrlsFrom(s, i) == IF i > Len(s) THEN << >> ELSE SkipUrl(s, i, UrlMatchLen(s, i))

RemoveUrls(s) == RemoveUrlsFrom(s, 1)

\* re.sub(email_pattern, '', text) and re.sub(phone_pattern, '', text).  Every match
\* of the e-mail pattern holds an "@" and every match of the phone pattern holds ten
\* digits; the documents of Corpus hold neither (CorpusHasNoEmailNoPhone), and on
\* such a text both substitutions return the text unchanged.
RemoveEmailsAndPhones(s) == s

\* re.sub(r'[^\w\s]', ' ', text)
RemovePunctuation(s) ==
    [i \in 1..Len(s) |-> IF IsWordChar(s[i]) \/ IsSpace(s[i]) THEN s[i] ELSE " "]

preprocess_text(text) ==
    IF text = None \/ text = << >> THEN << >>
    ELSE Join(Split(RemovePunctuation(RemoveEmailsAndPhones(
                RemoveUrls(CollapseWhitespace(Lower(text)))))))

\* ------------------------------------------------------------------------
\* TextPreprocessor.extract_technical_skills / extract_certifications
\* ------------------------------------------------------------------------
programming_languages ==
    << <<"p","y","t","h","o","n">>, <<"j","a","v","a">>,
       <<"j","a","v","a","s","c","r","i","p","t">>, <<"c","+","+">>, <<"c","#">>, <<"p","h","p">>,
       <<"r","u","b","y">>, <<"g","o">>, <<"r","u","s","t">>,
       <<"t","y","p","e","s","c","r","i","p","t">>, <<"k","o","t","l","i","n">>,
       <<"s","w","i","f","t">>, <<"s","c","a","l","a">>, <<"r">>, <<"m","a","t","l","a","b">>,
       <<"p","e","r","l">> >>

frameworks ==
    << <<"r","e","a","c","t">>, <<"a","n","g","u","l","a","r">>, <<"v","u","e">>,
       <<"d","j","a","n","g","o">>, <<"f","l","a","s","k">>, <<"s","p","r","i","n","g">>,
       <<"e","x","p","r","e","s","s">>, <<"l","a","r","a","v","e","l">>, <<"r","a","i","l","s">>,
       <<"f","a","s","t","a","p","i">>, <<"n","o","d","e",".","j","s">>,
       <<"a","s","p",".","n","e","t">> >>

databases ==
    << <<"m","y","s","q","l">>, <<"p","o","s","t","g","r","e","s","q","l">>,
       <<"m","o","n","g","o","d","b">>, <<"s","q","l","i","t","e">>, <<"r","e","d","i","s">>,
       <<"e","l","a","s","t","i","c","s","e","a","r","c","h">>, <<"o","r","a","c","l","e">>,
       <<"s","q","l"," ","s","e","r","v","e","r">>, <<"c","a","s","s","a","n","d","r","a">>,
       <<"f","i","r","e","b","a","s","e">> >>

cloud_platforms ==
    << <<"a","w","s">>, <<"a","z","u","r","e">>, <<"g","c","p">>,
       <<"g","o","o","g","l","e"," ","c","l","o","u","d">>, <<"h","e","r","o","k","u">>,
       <<"d","i","g","i","t","a","l","o","c","e","a","n">>, <<"d","o","c","k","e","r">>,
       <<"k","u","b","e","r","n","e","t","e","s">>, <<"t","e","r","r","a","f","o","r","m">> >>

tools ==
    << <<"g","i","t">>, <<"j","e","n","k","i","n","s">>, <<"j","i","r","a">>,
       <<"c","o","n","f","l","u","e","n","c","e">>, <<"p","o","s","t","m","a","n">>,
       <<"f","i","g","m","a">>, <<"p","h","o","t","o","s","h","o","p">>,
       <<"i","l","l","u","s","t","r","a","t","o","r">>, <<"t","a","b","l","e","a","u">>,
       <<"p","o","w","e","r"," ","b","i">> >>

data_science ==
    << <<"m","a","c","h","i","n","e"," ","l","e","a","r","n","i","n","g">>,
       <<"d","e","e","p"," ","l","e","a","r","n","i","n","g">>,
       <<"t","e","n","s","o","r","f","l","o","w">>, <<"p","y","t","o","r","c","h">>,
       <<"s","c","i","k","i","t","-","l","e","a","r","n">>, <<"p","a","n","d","a","s">>,
       <<"n","u","m","p","y">>, <<"m","a","t","p","l","o","t","l","i","b">>,
       <<"s","e","a","b","o","r","n">>, <<"j","u","p","y","t","e","r">>,
       <<"d","a","t","a"," ","a","n","a","l","y","s","i","s">>,
       <<"s","t","a","t","i","s","t","i","c","s">> >>

\* the categories in the order of the dict literal
technical_skills ==
    programming_languages \o frameworks \o databases \o cloud_platforms \o tools \o data_science

certifications ==
    << <<"a","w","s"," ","c","e","r","t","i","f","i","e","d">>,
       <<"a","z","u","r","e"," ","c","e","r","t","i","f","i","e","d">>,
       <<"g","o","o","g","l","e"," ","c","l","o","u","d"," ","c","e","r","t","i","f","i","e","d">>,
       <<"p","m","p">>, <<"c","i","s","s","p">>, <<"c","e","h">>, <<"c","c","n","a">>,
       <<"c","c","n","p">>, <<"c","c","i","e">>,
       <<"o","r","a","c","l","e"," ","c","e","r","t","i","f","i","e","d">>,
       <<"m","i","c","r","o","s","o","f","t"," ","c","e","r","t","i","f","i","e","d">>,
       <<"c","o","m","p","t","i","a">>, <<"s","c","r","u","m"," ","m","a","s","t","e","r">>,
       <<"p","r","o","d","u","c","t"," ","o","w","n","e","r">>,
       <<"s","i","x"," ","s","i","g","m","a">> >>

\* A call on a text that is not a str raises (None has no .lower()); the operators
\* below are applied to str arguments only, Raises(text) guards the call sites.
Raises(text) == text = None

\* set(found_skills): the vocabulary entries that occur in text.lower()
found_skills(text) == {s \in Range(technical_skills) : IsSubstring(s, Lower(text))}

\* list(set(...)): CPython iterates a set of str in an order fixed by the process's
\* hash seed.  Two of the possible orders are modelled: the vocabulary order
\* ("fwd") and its reverse ("rev").
HashOrders == {"fwd", "rev"}

IndexIn(vocab, s) == CHOOSE i \in 1..Len(vocab) : vocab[i] = s

RECURSIVE ListOfSet(_, _, _)
ListOfSet(S, vocab, order) ==
    IF S = {} THEN << >>
    ELSE LET first == CHOOSE s \in S : \A t \in S :
                          IF order = "fwd" THEN IndexIn(vocab, s) <= IndexIn(vocab, t)
                                           ELSE IndexIn(vocab, s) >= IndexIn(vocab, t)
         IN  <<first>> \o ListOfSet(S \ {first}, vocab, order)

extract_technical_skills(text, order) == ListOfSet(found_skills(text), technical_skills, order)

\* found_certs, in the order of the certifications list
extract_certifications(text) ==
    SelectSeq(certifications, LAMBDA c : IsSubstring(c, Lower(text)))

\* ------------------------------------------------------------------------
\* TextPreprocessor.extract_keywords
\* ------------------------------------------------------------------------
\* The spaCy pipeline is an external model.  Its stand-in tokenises on whitespace,
\* knows a short stop list, lemmatises a plural by dropping its final "s", and
\* finds no entity and no noun chunk.
StopWords == { <<"a","n","d">>, <<"t","h","e">>, <<"o","f">>, <<"i","n">> }

Lemma(w) == IF Len(w) > 3 /\ w[Len(w)] = "s" THEN SubSeq(w, 1, Len(w) - 1) ELSE w

NlpKeywords(words, min_length) ==
    {Lemma(w) : w \in {v \in words : v \notin StopWords /\ Len(v) >= min_length}}

\* lines 77-102, on the words of the preprocessed text
KeywordsOfWords(words, min_length, nlp) ==
    (IF nlp THEN NlpKeywords(words, min_length) ELSE {})
        \cup {w \in words : Len(w) >= min_length}

extract_keywords(text, min_length, nlp) ==
    IF text = None \/ text = << >> THEN {}
    ELSE KeywordsOfWords(Range(Split(preprocess_text(text))), min_length, nlp)

\* ------------------------------------------------------------------------
\* Floats as exact rationals
\* ------------------------------------------------------------------------
Abs(x) == IF x < 0 THEN -x ELSE x

RECURSIVE GCD(_, _)
GCD(a, b) == IF b = 0 THEN a ELSE GCD(b, a % b)

\* n / d for d > 0, in lowest terms
Rat(n, d) == LET g == GCD(Abs(n), d) IN [n |-> n \div g, d |-> d \div g]

NaN == [n |-> 0, d |-> 0]
Zero == [n |-> 0, d |-> 1]
One == [n |-> 1, d |-> 1]

IsNaN(x) == x.d = 0

RAdd(a, b) == IF IsNaN(a) \/ IsNaN(b) THEN NaN ELSE Rat(a.n * b.d + b.n * a.d, a.d * b.d)
RMul(a, b) == IF IsNaN(a) \/ IsNaN(b) THEN NaN ELSE Rat(a.n * b.n, a.d * b.d)

\* comparisons; every comparison with nan is False
RLt(a, b) == ~IsNaN(a) /\ ~IsNaN(b) /\ a.n * b.d < b.n * a.d
RLe(a, b) == ~IsNaN(a) /\ ~IsNaN(b) /\ a.n * b.d <= b.n * a.d
RGt(a, b) == RLt(b, a)
RGe(a, b) == RLe(b, a)

\* the builtins min(a, b) and max(a, b): the first argument is kept unless the
\* second compares strictly smaller (larger)
PyMin(a, b) == IF RLt(b, a) THEN b ELSE a
PyMax(a, b) == IF RGt(b, a) THEN b ELSE a

\* round(n / d) for n >= 0, d > 0: Python 3 rounds a half to the even neighbour
PyRound(n, d) ==
    LET q == n \div d
        r == n % d
    IN  IF 2 * r < d THEN q
        ELSE IF 2 * r > d THEN q + 1
        ELSE IF q % 2 = 0 THEN q ELSE q + 1

\* ------------------------------------------------------------------------
\* fuzzywuzzy: fuzz.token_sort_ratio and process.extractOne
\* ------------------------------------------------------------------------
\* utils.full_process: non-alphanumerics to spaces, lowercase, strip
RECURSIVE Strip(_)
Strip(s) ==
    IF s = << >> THEN s
    ELSE IF IsSpace(s[1]) THEN Strip(Tail(s))
    ELSE IF IsSpace(s[Len(s)]) THEN Strip(SubSeq(s, 1, Len(s) - 1))
    ELSE s

full_process(s) == Strip(Lower([i \in 1..Len(s) |-> IF IsWordChar(s[i]) THEN s[i] ELSE " "]))

\* code point order of the characters left after full_process
CharOrder == <<"0","1","2","3","4","5","6","7","8","9","_">> \o LowerCase

CharRank(c) == CHOOSE i \in 1..Len(CharOrder) : CharOrder[i] = c

\* s < t for two str
RECURSIVE StrLess(_, _)
StrLess(s, t) ==
    IF t = << >> THEN FALSE
    ELSE IF s = << >> THEN TRUE
    ELSE IF s[1] = t[1] THEN StrLess(Tail(s), Tail(t))
    ELSE CharRank(s[1]) < CharRank(t[1])

\* sorted(tokens)
RECURSIVE SortedTokens(_)
SortedTokens(tokens) ==
    IF tokens = << >> THEN << >>
    ELSE LET k == CHOOSE i \in 1..Len(tokens) :
                     \A j \in 1..Len(tokens) : ~StrLess(tokens[j], tokens[i])
         IN  <<tokens[k]>> \o
             SortedTokens(SubSeq(tokens, 1, k - 1) \o SubSeq(tokens, k + 1, Len(tokens)))

\* fuzz._process_and_sort
process_and_sort(s) == Strip(Join(SortedTokens(Split(full_process(s)))))

\* length of the common run of a[i..] and b[j..]
RECURSIVE CommonLen(_, _, _, _)
CommonLen(a, b, i, j) ==
    IF i <= Len(a) /\ j <= Len(b) /\ a[i] = b[j] THEN 1 + CommonLen(a, b, i + 1, j + 1) ELSE 0

Max(S) == CHOOSE x \in S : \A y \in S : y <= x
Min(S) == CHOOSE x \in S : \A y \in S : x <= y

\* difflib.SequenceMatcher: the summed sizes of get_matching_blocks().  The longest
\* common block is taken (of several, the one starting earliest in a, then earliest
\* in b) and the pieces to its left and to its right are matched recursively.
RECURSIVE MatchingSize(_, _)
MatchingSize(a, b) ==
    IF a = << >> \/ b = << >> THEN 0
    ELSE LET pos == (1..Len(a)) \X (1..Len(b))
             k == Max({CommonLen(a, b, p[1], p[2]) : p \in pos})
             i == Min({p[1] : p \in {q \in pos : CommonLen(a, b, q[1], q[2]) = k}})
             j == Min({p[2] : p \in {q \in pos : q[1] = i /\ CommonLen(a, b, i, q[2]) = k}})
         IN  IF k = 0 THEN 0
             ELSE k + MatchingSize(SubSeq(a, 1, i - 1), SubSeq(b, 1, j - 1))
                    + MatchingSize(SubSeq(a, i + k, Len(a)), SubSeq(b, j + k, Len(b)))

\* fuzz.ratio, 0..100: equal strings score 100, an empty string scores 0, otherwise
\* intr(100 * 2 * M / T)
ratio(s1, s2) ==
    IF s1 = s2 THEN 100
    ELSE IF s1 = << >> \/ s2 = << >> THEN 0
    ELSE PyRound(200 * MatchingSize(s1, s2), Len(s1) + Len(s2))

token_sort_ratio(s1, s2) == ratio(process_and_sort(s1), process_and_sort(s2))

\* ------------------------------------------------------------------------
\* Documents
\* ------------------------------------------------------------------------
D_EMPTY == << >>
D_BLANK == <<" ","\n">>
D_JOB == <<"p","y","t","h","o","n"," ","a","w","s"," ","d","o","c","k","e","r"," ","p","m","p">>
D_JOBU ==
    <<"P","y","t","h","o","n",","," ","A","W","S","."," ","D","o","c","k","e","r","!","\n","P","M","P">>
D_AZURE == <<"p","y","t","h","o","n"," ","a","z","u","r","e">>
D_CPP == <<"c","+","+"," ","d","e","v">>
D_CSHARP == <<"c","#"," ","d","e","v">>

\* the str documents, and the texts a caller can pass (None: a record without text)
Corpus == {D_EMPTY, D_BLANK, D_JOB, D_JOBU, D_AZURE, D_CPP, D_CSHARP}
Texts == Corpus \cup {None}

\* skill names passed to fuzzy_match_skills directly
S_ML == <<"m","a","c","h","i","n","e"," ","l","e","a","r","n","i","n","g">>
S_LM == <<"l","e","a","r","n","i","n","g"," ","m","a","c","h","i","n","e">>
S_JAVA == <<"j","a","v","a">>
SkillNames == {S_ML, S_LM, S_JAVA}

\* the precondition of RemoveEmailsAndPhones
CorpusHasNoEmailNoPhone ==
    \A t \in Corpus : "@" \notin Range(t) /\ Range(t) \cap Digits = {}

\* ------------------------------------------------------------------------
\* TextPreprocessor.fuzzy_match_skills
\* ------------------------------------------------------------------------
\* every str the scorer is applied to, and its scores (computed once)
ScoredNames == SkillNames \cup UNION {found_skills(t) : t \in Corpus}

Scores == Table([p \in ScoredNames \X ScoredNames |-> token_sort_ratio(p[1], p[2])])

\* process.extractOne(query, choices, scorer=fuzz.token_sort_ratio): None for no
\* choice, otherwise the first choice of maximal score (max() keeps the first)
FirstMax(scores) ==
    CHOOSE i \in DOMAIN scores : \A j \in DOMAIN scores :
        scores[i] > scores[j] \/ (scores[i] = scores[j] /\ i <= j)

BestChoice(choices, scores) == <<choices[FirstMax(scores)], scores[FirstMax(scores)]>>

extractOne(query, choices) ==
    IF choices = << >> THEN None
    ELSE BestChoice(choices, [i \in 1..Len(choices) |-> Scores[<<query, choices[i]>>]])

\* d[key] = value on a dict kept as its item list
DictSet(d, key, value) ==
    IF \E i \in 1..Len(d) : d[i].key = key
    THEN [i \in 1..Len(d) |-> IF d[i].key = key THEN [key |-> key, value |-> value] ELSE d[i]]
    ELSE Append(d, [key |-> key, value |-> value])

DictKeys(d) == {d[i].key : i \in 1..Len(d)}

\* a test that accepts the best match whatever its score
StoreAnyMatch(matches, job_skill, best_match, threshold) ==
    IF best_match # None
    THEN DictSet(matches, job_skill,
                 [matched_skill |-> best_match[1], similarity |-> Rat(best_match[2], 100)])
    ELSE matches

\* lines 199-203: the entry of a job skill is written when the best match reaches
\* the threshold
StoreMatch(matches, job_skill, best_match, threshold) ==
    IF best_match # None /\ best_match[2] >= threshold
    THEN DictSet(matches, job_skill,
                 [matched_skill |-> best_match[1], similarity |-> Rat(best_match[2], 100)])
    ELSE matches

\* the loop body for one job skill
FuzzyMatchOne(matches, job_skill, resume_skills, threshold) ==
    StoreMatch(matches, job_skill, extractOne(job_skill, resume_skills), threshold)

RECURSIVE FuzzyMatchLoop(_, _, _, _)
FuzzyMatchLoop(matches, job_skills, resume_skills, threshold) ==
    IF job_skills = << >> THEN matches
    ELSE FuzzyMatchLoop(FuzzyMatchOne(matches, Head(job_skills), resume_skills, threshold),
                        Tail(job_skills), resume_skills, threshold)

fuzzy_match_skills(resume_skills, job_skills, threshold) ==
    FuzzyMatchLoop(<< >>, job_skills, resume_skills, threshold)

\* ------------------------------------------------------------------------
\* EmbeddingService.generate_embedding / calculate_semantic_similarity
\* ------------------------------------------------------------------------
\* The sentence-transformers model is an external function from text to a vector of
\* fixed dimension.  Its stand-in picks one of the vectors below by a digest of the
\* text; every vector has an integer Euclidean norm, so the cosine is a rational.
ModelVectors ==
    << <<3, 4>>, <<4, -3>>, <<5, 0>>, <<-3, -4>>, <<0, 5>>, <<6, 8>>, <<-4, 3>>, <<4, 3>> >>

\* model.get_sentence_embedding_dimension()
EmbeddingDimension == Len(ModelVectors[1])

ZeroVector == [i \in 1..EmbeddingDimension |-> 0]

RECURSIVE Digest(_)
Digest(s) == IF s = << >> THEN 0 ELSE (IF s[1] = " " THEN 0 ELSE CharRank(s[1])) + Digest(Tail(s))

\* model.encode(clean_text)
encode(clean_text) == ModelVectors[(Digest(clean_text) % Len(ModelVectors)) + 1]

\* Faults of one evaluation: the failure the environment injects into it.
\*   "encode":     model.encode raises in generate_embedding
\*   "similarity": the arithmetic of calculate_semantic_similarity raises
\*   "analysis":   the spaCy pipeline raises in calculate_semantic_match_score
\*   "extraction": an extraction step raises in calculate_hard_match_score
\*   "fusion":     a step of calculate_combined_score outside the scorers raises
Faults == {"none", "extraction", "encode", "similarity", "analysis", "fusion"}

\* lines 65-74, on the preprocessed text
EmbeddingOfClean(clean_text, fault) ==
    IF clean_text = << >> THEN ZeroVector
    ELSE IF fault = "encode" THEN ZeroVector
    ELSE encode(clean_text)

generate_embedding(text, fault) == EmbeddingOfClean(preprocess_text(text), fault)

RECURSIVE Dot(_, _)
Dot(u, v) == IF u = << >> THEN 0 ELSE u[1] * v[1] + Dot(Tail(u), Tail(v))

\* np.linalg.norm, exact on the vectors above
Norm(v) == CHOOSE n \in 0..Dot(v, v) : n * n = Dot(v, v)

\* np.dot(e1, e2) / (norm(e1) * norm(e2)) on float64: 0.0 / 0.0 is nan (a
\* RuntimeWarning, no exception)
Quotient(dot, norms) == IF norms = 0 THEN NaN ELSE Rat(dot, norms)

cosine(e1, e2) == Quotient(Dot(e1, e2), Norm(e1) * Norm(e2))

\* a clamp without the shift to [0, 1], for comparison with line 141
rescale_unshifted(similarity) == PyMax(Zero, PyMin(One, similarity))

\* max(0, min(1, (similarity + 1) / 2))
rescale(similarity) == PyMax(Zero, PyMin(One, RMul(RAdd(similarity, One), Rat(1, 2))))

\* every value generate_embedding can return
Embeddings == Range(ModelVectors) \cup {ZeroVector}

\* lines 135-147 on the two embeddings; an exception gives 0.0
SimilarityOfEmbeddings(embedding1, embedding2, fault) ==
    IF fault = "similarity" THEN Zero ELSE rescale(cosine(embedding1, embedding2))

\* doc.sents of the spaCy stand-in: a sentence ends with ".", "!" or "?"; sent.text
\* is stripped; a text of whitespace only is one sentence
RECURSIVE SentencesFrom(_, _, _)
SentencesFrom(s, i, cur) ==
    IF i > Len(s) THEN (IF Strip(cur) = << >> THEN << >> ELSE <<Strip(cur)>>)
    ELSE IF s[i] \in {".", "!", "?"}
         THEN <<Strip(Append(cur, s[i]))>> \o SentencesFrom(s, i + 1, << >>)
         ELSE SentencesFrom(s, i + 1, Append(cur, s[i]))

Sentences(text) ==
    IF text # << >> /\ Strip(text) = << >> THEN <<text>> ELSE SentencesFrom(text, 1, << >>)

SentencesOf == Table([t \in Corpus |-> Sentences(t)])

\* every text that is embedded, and its embedding (computed once)
EmbeddedTexts == Texts \cup UNION {Range(SentencesOf[t]) : t \in Corpus}

EmbeddingOf ==
    Table([t \in EmbeddedTexts |-> Table([f \in Faults |-> generate_embedding(t, f)])])

\* lines 132-133: the embeddings of the two texts
Similarity(embeddings, text1, text2, fault) ==
    SimilarityOfEmbeddings(embeddings[text1][fault], embeddings[text2][fault], fault)

calculate_semantic_similarity(text1, text2, fault) ==
    Similarity(EmbeddingOf, text1, text2, fault)

\* ------------------------------------------------------------------------
\* Features of the documents, computed once per document
\* ------------------------------------------------------------------------
SkillsOf ==
    Table([t \in Corpus |-> Table([o \in HashOrders |-> extract_technical_skills(t, o)])])
CertsOf == Table([t \in Corpus |-> extract_certifications(t)])
KeywordsOf ==
    Table([t \in Corpus |-> Table([nlp \in BOOLEAN |-> extract_keywords(t, 2, nlp)])])

\* ------------------------------------------------------------------------
\* MatchingEngine.calculate_hard_match_score
\* ------------------------------------------------------------------------
\* a / b on numbers: b = 0 raises ZeroDivisionError
Raised == [n |-> 0, d |-> -1]
IsRaised(x) == x.d = -1
PyDiv(a, b) == IF b = 0 THEN Raised ELSE Rat(a, b)
\* x / b for a float x and an int b
RDiv(x, b) == IF b = 0 THEN Raised ELSE Rat(x.n, x.d * b)

RECURSIVE SumSimilarity(_)
SumSimilarity(matches) ==
    IF matches = << >> THEN Zero
    ELSE RAdd(matches[1].value.similarity, SumSimilarity(Tail(matches)))

\* a skill score that adds the two strategies, for comparison with lines 56-60
skill_score_additive(skill_matches, fuzzy_skill_matches, job_skills) ==
    IF job_skills # << >>
    THEN RAdd(PyDiv(Cardinality(skill_matches), Len(job_skills)),
              RMul(RDiv(SumSimilarity(fuzzy_skill_matches), Len(job_skills)), Rat(8, 10)))
    ELSE Zero

\* lines 56-60; fuzzy_skill_score is the sum of the similarities over len(job_skills)
skill_score(skill_matches, fuzzy_skill_matches, job_skills) ==
    IF job_skills # << >>
    THEN LET exact_skill_score == PyDiv(Cardinality(skill_matches), Len(job_skills))
             fuzzy_skill_score ==
                 RDiv(SumSimilarity(fuzzy_skill_matches), Len(job_skills))
         IN  PyMax(exact_skill_score, RMul(fuzzy_skill_score, Rat(8, 10)))
    ELSE Zero

\* a keyword score without the emptiness test of line 63
keyword_score_unguarded(keyword_matches, job_keywords) ==
    PyDiv(Cardinality(keyword_matches), Cardinality(job_keywords))

\* lines 62-64
keyword_score(keyword_matches, job_keywords) ==
    IF job_keywords # {} THEN PyDiv(Cardinality(keyword_matches), Cardinality(job_keywords))
    ELSE Zero

\* lines 66-68
cert_score(cert_matches, job_certs) ==
    IF job_certs # << >> THEN PyDiv(Cardinality(cert_matches), Len(job_certs))
    ELSE Zero

\* a weighted sum with other coefficients, for comparison with lines 71-75
weighted_hard_score_even(skill, keyword, cert) ==
    RAdd(RAdd(RMul(skill, Rat(4, 10)), RMul(keyword, Rat(4, 10))), RMul(cert, Rat(2, 10)))

\* lines 71-75
weighted_hard_score(skill, keyword, cert) ==
    RAdd(RAdd(RMul(skill, Rat(6, 10)), RMul(keyword, Rat(3, 10))), RMul(cert, Rat(1, 10)))

\* the dict of the except branch (lines 92-103); path names the return statement
HardErrorResult ==
    [path |-> "error",
     hard_match_score |-> Zero,
     skill_matches |-> {}, keyword_matches |-> {}, cert_matches |-> {},
     fuzzy_skill_matches |-> << >>,
     missing_skills |-> << >>, missing_certs |-> << >>,
     skill_score |-> Zero, keyword_score |-> Zero, cert_score |-> Zero]

\* a result that lists every skill and certification of the job as missing, for
\* comparison with the set differences of lines 82-83
HardResultAllMissing(resume_skills, job_skills, resume_certs, job_certs, order, skill_matches, keyword_matches, cert_matches, fuzzy_skill_matches, skill, keyword, cert) ==
    IF IsRaised(skill) \/ IsRaised(keyword) \/ IsRaised(cert) THEN HardErrorResult
    ELSE [path |-> "normal",
          hard_match_score |-> PyMin(One, weighted_hard_score(skill, keyword, cert)),
          skill_matches |-> skill_matches,
          keyword_matches |-> keyword_matches,
          cert_matches |-> cert_matches,
          fuzzy_skill_matches |-> fuzzy_skill_matches,
          missing_skills |-> ListOfSet(Range(job_skills), technical_skills, order),
          missing_certs |-> ListOfSet(Range(job_certs), certifications, order),
          skill_score |-> skill,
          keyword_score |-> keyword,
          cert_score |-> cert]

\* lines 77-88: the returned dict; a division that raised leads to the except branch
HardResult(resume_skills, job_skills, resume_certs, job_certs, order, skill_matches, keyword_matches, cert_matches, fuzzy_skill_matches, skill, keyword, cert) ==
    IF IsRaised(skill) \/ IsRaised(keyword) \/ IsRaised(cert) THEN HardErrorResult
    ELSE [path |-> "normal",
          hard_match_score |-> PyMin(One, weighted_hard_score(skill, keyword, cert)),
          skill_matches |-> skill_matches,
          keyword_matches |-> keyword_matches,
          cert_matches |-> cert_matches,
          fuzzy_skill_matches |-> fuzzy_skill_matches,
          missing_skills |->
              ListOfSet(Range(job_skills) \ Range(resume_skills), technical_skills, order),
          missing_certs |->
              ListOfSet(Range(job_certs) \ Range(resume_certs), certifications, order),
          skill_score |-> skill,
          keyword_score |-> keyword,
          cert_score |-> cert]

\* lines 55-68: the three sub-scores
HardScores(resume_skills, job_skills, job_keywords, resume_certs, job_certs, order, skill_matches, keyword_matches, cert_matches, fuzzy_skill_matches) ==
    HardResult(resume_skills, job_skills, resume_certs, job_certs, order,
               skill_matches, keyword_matches, cert_matches, fuzzy_skill_matches,
               skill_score(skill_matches, fuzzy_skill_matches, job_skills),
               keyword_score(keyword_matches, job_keywords),
               cert_score(cert_matches, job_certs))

\* a matching that takes the features of the job the resume lacks as the matched ones,
\* for comparison with the intersections of lines 45-50
HardMatchOfMissing(resume_skills, job_skills, resume_keywords, job_keywords, resume_certs, job_certs, order) ==
    HardScores(resume_skills, job_skills, job_keywords, resume_certs, job_certs, order,
               Range(job_skills) \ Range(resume_skills),
               job_keywords \ resume_keywords,
               Range(job_certs) \ Range(resume_certs),
               fuzzy_match_skills(resume_skills, job_skills, 75))

\* lines 45-53: the exact matches and the fuzzy matches
HardMatch(resume_skills, job_skills, resume_keywords, job_keywords, resume_certs, job_certs, order) ==
    HardScores(resume_skills, job_skills, job_keywords, resume_certs, job_certs, order,
               Range(resume_skills) \cap Range(job_skills),
               resume_keywords \cap job_keywords,
               Range(resume_certs) \cap Range(job_certs),
               fuzzy_match_skills(resume_skills, job_skills, 75))

\* lines 35-43: the extracted features of the two texts
HardFeatures(skills, keywords, certs, resume_text, job_text, nlp, order) ==
    HardMatch(skills[resume_text][order], skills[job_text][order],
              keywords[resume_text][nlp], keywords[job_text][nlp],
              certs[resume_text], certs[job_text], order)

\* a variant that guards each extraction on its own and scores what is left, for
\* comparison with the single try block of lines 34-103
calculate_hard_match_score_lenient(resume_text, job_text, fault, nlp, order) ==
    HardFeatures(SkillsOf, KeywordsOf, CertsOf,
                 IF fault = "extraction" \/ Raises(resume_text) THEN D_EMPTY ELSE resume_text,
                 IF Raises(job_text) THEN D_EMPTY ELSE job_text, nlp, order)

calculate_hard_match_score(resume_text, job_text, fault, nlp, order) ==
    IF fault = "extraction" \/ Raises(resume_text) \/ Raises(job_text) THEN HardErrorResult
    ELSE HardFeatures(SkillsOf, KeywordsOf, CertsOf, resume_text, job_text, nlp, order)

\* ------------------------------------------------------------------------
\* MatchingEngine.calculate_semantic_match_score
\* ------------------------------------------------------------------------
\* lines 143-145: a strictly larger similarity replaces the best pair
Better(best, sim, resume_sent) == IF RGt(sim, best[2]) THEN <<resume_sent, sim>> ELSE best

\* the inner loop (lines 137-145): the first resume sentence of maximal similarity,
\* if that similarity is above the initial best_sim = 0; otherwise "" with 0
RECURSIVE BestResumeSentence(_, _, _, _)
BestResumeSentence(job_sent, resume_sentences, fault, best) ==
    IF resume_sentences = << >> THEN best
    ELSE BestResumeSentence(job_sent, Tail(resume_sentences), fault,
                            Better(best,
                                   calculate_semantic_similarity(job_sent,
                                                                 Head(resume_sentences), fault),
                                   Head(resume_sentences)))

\* lines 147-152: a best pair above 0.3 is appended
MatchEntry(job_sent, best) ==
    IF RGt(best[2], Rat(3, 10))
    THEN <<[job_sentence |-> job_sent, resume_sentence |-> best[1], similarity |-> best[2]]>>
    ELSE << >>

\* the outer loop (lines 136-152) over job_sentences[:5]
RECURSIVE BestMatches(_, _, _)
BestMatches(job_sentences, resume_sentences, fault) ==
    IF job_sentences = << >> THEN << >>
    ELSE MatchEntry(Head(job_sentences),
                    BestResumeSentence(Head(job_sentences), resume_sentences, fault,
                                       <<<< >>, Zero>>))
         \o BestMatches(Tail(job_sentences), resume_sentences, fault)

FirstN(s, n) == SubSeq(s, 1, IF Len(s) < n THEN Len(s) ELSE n)

\* the dict of the except branch (lines 164-168)
SemanticErrorResult ==
    [path |-> "error",
     semantic_match_score |-> Zero,
     has_sentence_matches |-> FALSE,
     sentence_matches |-> << >>,
     contextual_relevance |-> Zero]

\* lines 156-160
SemanticResult(overall_similarity, sentence_level, sentence_matches) ==
    [path |-> "normal",
     semantic_match_score |-> overall_similarity,
     has_sentence_matches |-> sentence_level,
     sentence_matches |-> sentence_matches,
     contextual_relevance |-> overall_similarity]

\* lines 129-154: the sentence matches, when both Docs are truthy
SentenceMatches(sentences, resume_text, job_text, fault, sentence_level) ==
    IF sentence_level
    THEN BestMatches(FirstN(sentences[job_text], 5), sentences[resume_text], fault)
    ELSE << >>

\* lines 122-154: a Doc without tokens is falsy
SemanticSections(overall_similarity, resume_text, job_text, fault, sentence_level) ==
    SemanticResult(overall_similarity, sentence_level,
                   SentenceMatches(SentencesOf, resume_text, job_text, fault, sentence_level))

\* nlp(text) raises on a text that is not a str
calculate_semantic_match_score(resume_text, job_text, fault, nlp) ==
    IF nlp /\ (fault = "analysis" \/ Raises(resume_text) \/ Raises(job_text))
    THEN SemanticErrorResult
    ELSE SemanticSections(calculate_semantic_similarity(resume_text, job_text, fault),
                          resume_text, job_text, fault,
                          nlp /\ resume_text # << >> /\ job_text # << >>)

\* ------------------------------------------------------------------------
\* MatchingEngine._generate_feedback / _get_ai_insights
\* ------------------------------------------------------------------------
\* the fixed suggestion texts, by the line that appends them
AddSkills(names) == [text |-> "Consider adding these technical skills", names |-> names]
ObtainCerts(names) == [text |-> "Consider obtaining these certifications", names |-> names]
Rephrase == [text |-> "Consider rephrasing your experience descriptions", names |-> << >>]
Quantify == [text |-> "Add more specific examples", names |-> << >>]
AcquireSkills == [text |-> "Focus on acquiring the key technical skills", names |-> << >>]
IncludeProjects == [text |-> "Include relevant projects", names |-> << >>]

\* the answer of the LLM advisor, an external service
AdvisorSuggestions == <<"advisor suggestion">>

\* suggestions whose score tests include the thresholds, for comparison with the
\* strict tests of lines 266 and 276
SuggestionsInclusive(missing_skills, missing_certifications, semantic_score, hard_score) ==
       (IF missing_skills # << >> THEN <<AddSkills(FirstN(missing_skills, 5))>> ELSE << >>)
    \o (IF missing_certifications # << >> THEN <<ObtainCerts(missing_certifications)>>
        ELSE << >>)
    \o (IF RLe(semantic_score, Rat(5, 10)) THEN <<Rephrase, Quantify>> ELSE << >>)
    \o (IF RLe(hard_score, Rat(4, 10)) THEN <<AcquireSkills, IncludeProjects>> ELSE << >>)

\* lines 253-281: the suggestions, in the order of the four tests
Suggestions(missing_skills, missing_certifications, semantic_score, hard_score) ==
       (IF missing_skills # << >> THEN <<AddSkills(FirstN(missing_skills, 5))>> ELSE << >>)
    \o (IF missing_certifications # << >> THEN <<ObtainCerts(missing_certifications)>>
        ELSE << >>)
    \o (IF RLt(semantic_score, Rat(5, 10)) THEN <<Rephrase, Quantify>> ELSE << >>)
    \o (IF RLt(hard_score, Rat(4, 10)) THEN <<AcquireSkills, IncludeProjects>> ELSE << >>)

\* what the call of the LLM advisor at lines 284-292 comes to:
\*   "unavailable": is_available() is false, the key is not written
\*   "answers":     generate_improvement_suggestions returns the parsed suggestions
\*   "raises":      self.chat_model raises inside the service, which returns its error text
\*   "escapes":     an exception leaves the service, the except branch stores []
AdvisorOutcomes == {"unavailable", "answers", "raises", "escapes"}

\* what generate_improvement_suggestions returns from its except branch
AdvisorError == <<"Error generating suggestions">>

Advice(advisor) ==
    IF advisor = "answers" THEN AdvisorSuggestions
    ELSE IF advisor = "raises" THEN AdvisorError
    ELSE << >>

\* a feedback that extends the deterministic list with the advisor's answer, for
\* comparison with the separate key of lines 289 and 292
FeedbackMerged(hard_match_results, semantic_match_results, advisor) ==
    [missing_skills |-> hard_match_results.missing_skills,
     missing_certifications |-> hard_match_results.missing_certs,
     improvement_suggestions |->
         Suggestions(hard_match_results.missing_skills, hard_match_results.missing_certs,
                     semantic_match_results.semantic_match_score,
                     hard_match_results.hard_match_score)
         \o [i \in 1..Len(Advice(advisor)) |-> [text |-> Advice(advisor)[i], names |-> << >>]],
     has_ai_improvement_suggestions |-> advisor # "unavailable",
     ai_improvement_suggestions |-> Advice(advisor)]

\* lines 246-294, by the outcome of the advisor
Feedback(hard_match_results, semantic_match_results, advisor) ==
    [missing_skills |-> hard_match_results.missing_skills,
     missing_certifications |-> hard_match_results.missing_certs,
     improvement_suggestions |->
         Suggestions(hard_match_results.missing_skills, hard_match_results.missing_certs,
                     semantic_match_results.semantic_match_score,
                     hard_match_results.hard_match_score),
     has_ai_improvement_suggestions |-> advisor # "unavailable",
     ai_improvement_suggestions |-> Advice(advisor)]

_generate_feedback(hard_match_results, semantic_match_results, openai_available) ==
    Feedback(hard_match_results, semantic_match_results,
             IF openai_available THEN "answers" ELSE "unavailable")

\* the keys of the insights dict; the HuggingFace service has no token by default
\* (config.py line 16) and is unavailable
_get_ai_insights(openai_available) == IF openai_available THEN {"openai_analysis"} ELSE {}

\* ------------------------------------------------------------------------
\* MatchingEngine.calculate_combined_score
\* ------------------------------------------------------------------------
\* the tiers with exclusive lower bounds, for comparison with lines 193-198
suitability_exclusive(combined_score) ==
    IF RGt(combined_score, Rat(7, 10)) THEN "High"
    ELSE IF RGt(combined_score, Rat(4, 10)) THEN "Medium"
    ELSE "Low"

\* lines 193-198
suitability_of(combined_score) ==
    IF RGe(combined_score, Rat(7, 10)) THEN "High"
    ELSE IF RGe(combined_score, Rat(4, 10)) THEN "Medium"
    ELSE "Low"

\* a fusion that credits the semantic score in full, for comparison with lines 187-190
combine_unweighted(hard_match_score, semantic_match_score, config) ==
    RAdd(RMul(hard_match_score, Rat(config.hard_match_weight, 10)), semantic_match_score)

\* lines 187-190; the weights are held in tenths
combine(hard_match_score, semantic_match_score, config) ==
    RAdd(RMul(hard_match_score, Rat(config.hard_match_weight, 10)),
         RMul(semantic_match_score, Rat(config.semantic_match_weight, 10)))

\* round(combined_score * 100, 2)
score_percentage_of(combined_score) == Rat(PyRound(combined_score.n * 10000, combined_score.d), 100)

EmptyDict == [path |-> "empty"]

\* the dict of the except branch (lines 218-230)
CombinedErrorResult ==
    [path |-> "error",
     combined_score |-> Zero,
     score_percentage |-> Zero,
     suitability |-> "Low",
     hard_match_results |-> EmptyDict,
     semantic_match_results |-> EmptyDict,
     feedback |-> [missing_skills |-> << >>,
                   missing_certifications |-> << >>,
                   improvement_suggestions |->
                       <<[text |-> "Error occurred during analysis", names |-> << >>]>>,
                   has_ai_improvement_suggestions |-> FALSE,
                   ai_improvement_suggestions |-> << >>],
     ai_insights |-> {}]

\* lines 192-214
CombinedResult(hard_match_results, semantic_match_results, combined_score, openai_available) ==
    [path |-> "normal",
     combined_score |-> combined_score,
     score_percentage |-> score_percentage_of(combined_score),
     suitability |-> suitability_of(combined_score),
     hard_match_results |-> hard_match_results,
     semantic_match_results |-> semantic_match_results,
     feedback |-> _generate_feedback(hard_match_results, semantic_match_results,
                                     openai_available),
     ai_insights |-> _get_ai_insights(openai_available)]

\* lines 186-190
Fuse(hard_match_results, semantic_match_results, config) ==
    CombinedResult(hard_match_results, semantic_match_results,
                   combine(hard_match_results.hard_match_score,
                           semantic_match_results.semantic_match_score, config),
                   config.openai_available)

\* a fault of the fusion itself (a statement of lines 186-214 raising) leads to
\* the except branch
calculate_combined_score(resume_text, job_text, fault, config) ==
    IF fault = "fusion" THEN CombinedErrorResult
    ELSE Fuse(calculate_hard_match_score(resume_text, job_text, fault,
                                         config.nlp, config.hash_order),
              calculate_semantic_match_score(resume_text, job_text, fault, config.nlp),
              config)

\* ------------------------------------------------------------------------
\* MatchingEngine.batch_process_resumes
\* ------------------------------------------------------------------------
\* an insertion that puts x before the elements of equal key (an unstable sort)
RECURSIVE InsertBeforeEqual(_, _)
InsertBeforeEqual(sorted, x) ==
    IF sorted = << >> THEN <<x>>
    ELSE IF RGt(Head(sorted).combined_score, x.combined_score)
         THEN <<Head(sorted)>> \o InsertBeforeEqual(Tail(sorted), x)
         ELSE <<x>> \o sorted

\* list.sort(key=combined_score, reverse=True) is stable: x goes behind every
\* element whose key is not smaller
RECURSIVE InsertSorted(_, _)
InsertSorted(sorted, x) ==
    IF sorted = << >> THEN <<x>>
    ELSE IF RGe(Head(sorted).combined_score, x.combined_score)
         THEN <<Head(sorted)>> \o InsertSorted(Tail(sorted), x)
         ELSE <<x>> \o sorted

RECURSIVE SortDescending(_)
SortDescending(results) ==
    IF results = << >> THEN << >>
    ELSE InsertSorted(SortDescending(SubSeq(results, 1, Len(results) - 1)),
                      results[Len(results)])

\* a loop body that loses the results gathered so far when an evaluation fails
AppendResultAborting(results, match_results, resume) ==
    IF match_results.path = "error" THEN << >>
    ELSE Append(results,
                match_results @@ [resume_id |-> resume.id, resume_metadata |-> resume.metadata])

\* lines 350-356: the metadata is merged in and the dict appended
AppendResult(results, match_results, resume) ==
    Append(results,
           match_results @@ [resume_id |-> resume.id, resume_metadata |-> resume.metadata])

\* the loop body (lines 343-360): calculate_combined_score returns on every path,
\* so the except branch of the loop is not entered
ProcessResume(results, resume, job_text, config) ==
    AppendResult(results,
                 calculate_combined_score(resume.text, job_text, resume.fault, config),
                 resume)

RECURSIVE ProcessAll(_, _, _, _)
ProcessAll(results, resume_data, job_text, config) ==
    IF resume_data = << >> THEN results
    ELSE ProcessAll(ProcessResume(results, Head(resume_data), job_text, config),
                    Tail(resume_data), job_text, config)

batch_process_resumes(job_text, resume_data, config) ==
    SortDescending(ProcessAll(<< >>, resume_data, job_text, config))

\* ------------------------------------------------------------------------
\* The engine as a state machine
\* ------------------------------------------------------------------------
\* config: the settings and capabilities fixed when the engine is constructed
\* call:   the call in progress on the engine, with its arguments; the services
\*         are synchronous, so a caller makes one call at a time
\* result: what that call returned, until the caller takes it
\* engine: "absent" before the services are constructed, then "ready" or "failed"
\* index_reachable: whether the vector store answers
\* resume_collection, job_collection: the two ChromaDB collections, by document id
\* evaluations, logs, tasks: the Evaluation and SystemLog tables and the background
\*         tasks of the API that are scheduled and have not run
\* run:    the position of a batch that is followed one provider call at a time
VARIABLES config, call, result, engine, index_reachable, resume_collection, job_collection,
          evaluations, logs, tasks, run

engine_vars == <<config, call, result>>
index_vars == <<engine, index_reachable, resume_collection, job_collection>>
api_vars == <<evaluations, logs, tasks>>

vars == <<config, call, result, engine, index_reachable, resume_collection, job_collection,
          evaluations, logs, tasks, run>>

\* bounds of the inputs
MaxBatch == 3
MaxResumeSkills == 2
MaxJobSkills == 2

\* (hard_match_weight, semantic_match_weight) in tenths: the defaults of config.py,
\* another split, and a pair that does not sum to 1 (Settings validates neither)
WeightPairs == {<<4, 6>>, <<2, 8>>, <<7, 6>>}

Configs ==
    {[hard_match_weight |-> w[1], semantic_match_weight |-> w[2],
      nlp |-> n, openai_available |-> o, hash_order |-> h] :
        w \in WeightPairs, n \in BOOLEAN, o \in BOOLEAN, h \in HashOrders}

\* the resume records a caller passes to batch_process_resumes
Candidates ==
    {[id |-> "A", text |-> D_JOBU, fault |-> "none", metadata |-> "a.pdf"],
     [id |-> "B", text |-> D_AZURE, fault |-> "none", metadata |-> "b.pdf"],
     [id |-> "C", text |-> D_CPP, fault |-> "fusion", metadata |-> "c.pdf"],
     [id |-> "D", text |-> D_JOB, fault |-> "none", metadata |-> "d.docx"],
     [id |-> "E", text |-> None, fault |-> "none", metadata |-> "e.pdf"]}

SeqsUpTo(S, n) == UNION {[1..k -> S] : k \in 0..n}

ResumeLists ==
    {s \in SeqsUpTo(Candidates, MaxBatch) : \A i, j \in 1..Len(s) : s[i].id = s[j].id => i = j}

BatchJobs == {D_JOB, D_CSHARP, D_EMPTY}

Thresholds == {75, 80}

\* the services are constructed, the stores are empty, nothing is scheduled
Idle == [pc |-> "idle"]

Init ==
    /\ config \in Configs
    /\ call = [op |-> "none"]
    /\ result = [path |-> "none"]
    /\ engine = "ready"
    /\ index_reachable = TRUE
    /\ resume_collection = << >>
    /\ job_collection = << >>
    /\ evaluations = << >>
    /\ logs = << >>
    /\ tasks = << >>
    /\ run = Idle

CalculateCombinedScore ==
    \E resume_text \in Texts, job_text \in Texts, fault \in Faults :
        /\ call.op = "none"
        /\ call' = [op |-> "calculate_combined_score", resume_text |-> resume_text,
                    job_text |-> job_text, fault |-> fault]
        /\ result' = calculate_combined_score(resume_text, job_text, fault, config)
        /\ UNCHANGED <<config, index_vars, api_vars, run>>

CalculateHardMatchScore ==
    \E resume_text \in Texts, job_text \in Texts, fault \in {"none", "extraction"} :
        /\ call.op = "none"
        /\ call' = [op |-> "calculate_hard_match_score", resume_text |-> resume_text,
                    job_text |-> job_text, fault |-> fault]
        /\ result' = calculate_hard_match_score(resume_text, job_text, fault,
                                                config.nlp, config.hash_order)
        /\ UNCHANGED <<config, index_vars, api_vars, run>>

\* a method of the embedding service: there is one to call once it is constructed
CalculateSemanticSimilarity ==
    \E text1 \in Texts, text2 \in Texts, fault \in {"none", "encode", "similarity"} :
        /\ call.op = "none"
        /\ engine = "ready"
        /\ call' = [op |-> "calculate_semantic_similarity", text1 |-> text1,
                    text2 |-> text2, fault |-> fault]
        /\ result' = calculate_semantic_similarity(text1, text2, fault)
        /\ UNCHANGED <<config, index_vars, api_vars, run>>

\* TextPreprocessor.preprocess_text on a text of the corpus
PreprocessText ==
    \E text \in Texts :
        /\ call.op = "none"
        /\ engine = "ready"
        /\ call' = [op |-> "preprocess_text", text |-> text]
        /\ result' = [path |-> "returned", text |-> preprocess_text(text)]
        /\ UNCHANGED <<config, index_vars, api_vars, run>>

FuzzyMatchSkills ==
    \E resume_skills \in SeqsUpTo(SkillNames, MaxResumeSkills),
       job_skills \in SeqsUpTo(SkillNames, MaxJobSkills),
       threshold \in Thresholds :
        /\ call.op = "none"
        /\ call' = [op |-> "fuzzy_match_skills", resume_skills |-> resume_skills,
                    job_skills |-> job_skills, threshold |-> threshold]
        /\ result' = fuzzy_match_skills(resume_skills, job_skills, threshold)
        /\ UNCHANGED <<config, index_vars, api_vars, run>>

BatchProcessResumes ==
    \E job_text \in BatchJobs, resume_data \in ResumeLists :
        /\ call.op = "none"
        /\ call' = [op |-> "batch_process_resumes", job_text |-> job_text,
                    resume_data |-> resume_data]
        /\ result' = batch_process_resumes(job_text, resume_data, config)
        /\ UNCHANGED <<config, index_vars, api_vars, run>>

\* the caller takes the result; the engine keeps nothing from the call
Return ==
    /\ call.op # "none"
    /\ call' = [op |-> "none"]
    /\ result' = [path |-> "none"]
    /\ UNCHANGED <<config, index_vars, api_vars, run>>

Next ==
    \/ CalculateCombinedScore
    \/ CalculateHardMatchScore
    \/ CalculateSemanticSimilarity
    \/ PreprocessText
    \/ FuzzyMatchSkills
    \/ BatchProcessResumes
    \/ Return

Spec == Init /\ [][Next]_vars

\* ------------------------------------------------------------------------
\* calculate_semantic_similarity on every pair of embeddings
\* ------------------------------------------------------------------------
DefaultConfig ==
    [hard_match_weight |-> 4, semantic_match_weight |-> 6,
     nlp |-> TRUE, openai_available |-> FALSE, hash_order |-> "fwd"]

InitEmbeddings == Init /\ config = DefaultConfig

SimilarityOfVectors ==
    \E embedding1 \in Embeddings, embedding2 \in Embeddings, fault \in {"none", "similarity"} :
        /\ call.op = "none"
        /\ call' = [op |-> "similarity_of_embeddings", embedding1 |-> embedding1,
                    embedding2 |-> embedding2, fault |-> fault]
        /\ result' = SimilarityOfEmbeddings(embedding1, embedding2, fault)
        /\ UNCHANGED <<config, index_vars, api_vars, run>>

NextEmbeddings ==
    \/ SimilarityOfVectors
    \/ Return

SpecEmbeddings == InitEmbeddings /\ [][NextEmbeddings]_vars


\* ------------------------------------------------------------------------
\* EmbeddingService: the vector store
\* ------------------------------------------------------------------------
\* bound: the records the two collections hold together
MaxStored == 2

\* text[:1000]
DocumentLimit == 1000

IndexIds == {"1", "2"}
IndexTexts == {D_JOB, D_AZURE, None}
\* the metadata of a call: non-empty dicts, which "metadata or {}" passes as they are
Metadatas == {<<[key |-> "source", value |-> "upload"]>>, <<[key |-> "source", value |-> "import"]>>}

HasId(collection, id) == \E i \in 1..Len(collection) : collection[i].id = id

\* Collection.add of one record (chromadb, the release line that has PersistentClient):
\* a record whose id is already in the collection is not written, the stored one stays
CollectionAdd(collection, record) ==
    IF HasId(collection, record.id) THEN collection ELSE Append(collection, record)

\* lines 86-93 (and 108-115): the except branch leaves the collection as it is when
\* the store is unreachable or text[:1000] raises on a text that is not a str
StoreEmbedding(collection, id, text, metadata, reachable) ==
    IF ~reachable \/ Raises(text) THEN collection
    ELSE CollectionAdd(collection,
                       [id |-> id,
                        embedding |-> EmbeddingOf[text]["none"],
                        document |-> FirstN(text, DocumentLimit),
                        metadata |-> metadata])

store_resume_embedding(collection, resume_id, text, metadata, reachable) ==
    StoreEmbedding(collection, resume_id, text, metadata, reachable)

store_job_embedding(collection, job_id, text, metadata, reachable) ==
    StoreEmbedding(collection, job_id, text, metadata, reachable)

\* the distance of the collections, created without a space: squared L2
Distance(u, v) == Dot([i \in 1..Len(u) |-> u[i] - v[i]], [i \in 1..Len(u) |-> u[i] - v[i]])

\* Collection.query: the records by ascending distance, at most n_results of them
RECURSIVE InsertByDistance(_, _)
InsertByDistance(sorted, hit) ==
    IF sorted = << >> THEN <<hit>>
    ELSE IF sorted[1].distance <= hit.distance
         THEN <<sorted[1]>> \o InsertByDistance(Tail(sorted), hit)
         ELSE <<hit>> \o sorted

RECURSIVE QueryFrom(_, _, _)
QueryFrom(collection, embedding, sorted) ==
    IF collection = << >> THEN sorted
    ELSE QueryFrom(Tail(collection), embedding,
                   InsertByDistance(sorted,
                                    [id |-> collection[1].id,
                                     distance |-> Distance(collection[1].embedding, embedding),
                                     metadata |-> collection[1].metadata]))

CollectionQuery(collection, embedding, n_results) ==
    FirstN(QueryFrom(collection, embedding, << >>), n_results)

\* lines 168-179 (and 204-215): similarity = 1 - distance
SimilarOf(hits) ==
    [i \in 1..Len(hits) |->
        [id |-> hits[i].id, similarity |-> Rat(1 - hits[i].distance, 1),
         metadata |-> hits[i].metadata]]

\* lines 160-183 (and 196-219): the except branch returns []
FindSimilar(collection, text, n_results, reachable) ==
    IF ~reachable THEN << >>
    ELSE SimilarOf(CollectionQuery(collection, EmbeddingOf[text]["none"], n_results))

find_similar_resumes(collection, job_text, n_results, reachable) ==
    FindSimilar(collection, job_text, n_results, reachable)

find_similar_jobs(collection, resume_text, n_results, reachable) ==
    FindSimilar(collection, resume_text, n_results, reachable)

\* EmbeddingService.__init__ raises when _init_vector_store raises, and so does
\* MatchingEngine.__init__, which constructs an EmbeddingService
Constructed(reachable) == IF reachable THEN "ready" ELSE "failed"

InitIndex ==
    /\ config = DefaultConfig
    /\ call = [op |-> "none"]
    /\ result = [path |-> "none"]
    /\ engine = "absent"
    /\ index_reachable \in BOOLEAN
    /\ resume_collection = << >>
    /\ job_collection = << >>
    /\ evaluations = << >>
    /\ logs = << >>
    /\ tasks = << >>
    /\ run = Idle

Construct ==
    /\ engine = "absent"
    /\ engine' = Constructed(index_reachable)
    /\ UNCHANGED <<engine_vars, index_reachable, resume_collection, job_collection,
                   api_vars, run>>

\* the environment: the store stops answering, or answers again
IndexFails ==
    /\ call.op = "none"
    /\ index_reachable
    /\ index_reachable' = FALSE
    /\ UNCHANGED <<engine_vars, engine, resume_collection, job_collection, api_vars, run>>

IndexRecovers ==
    /\ call.op = "none"
    /\ ~index_reachable
    /\ index_reachable' = TRUE
    /\ UNCHANGED <<engine_vars, engine, resume_collection, job_collection, api_vars, run>>

HasRoom(collection, id) ==
    HasId(collection, id) \/ Len(resume_collection) + Len(job_collection) < MaxStored

StoreResumeEmbedding ==
    \E resume_id \in IndexIds, text \in IndexTexts, metadata \in Metadatas :
        /\ call.op = "none"
        /\ engine = "ready"
        /\ HasRoom(resume_collection, resume_id)
        /\ call' = [op |-> "store_resume_embedding", id |-> resume_id, text |-> text,
                    metadata |-> metadata]
        /\ result' = [path |-> "returned"]
        /\ resume_collection' = store_resume_embedding(resume_collection, resume_id, text,
                                                       metadata, index_reachable)
        /\ UNCHANGED <<config, engine, index_reachable, job_collection, api_vars, run>>

StoreJobEmbedding ==
    \E job_id \in IndexIds, text \in IndexTexts, metadata \in Metadatas :
        /\ call.op = "none"
        /\ engine = "ready"
        /\ HasRoom(job_collection, job_id)
        /\ call' = [op |-> "store_job_embedding", id |-> job_id, text |-> text,
                    metadata |-> metadata]
        /\ result' = [path |-> "returned"]
        /\ job_collection' = store_job_embedding(job_collection, job_id, text,
                                                 metadata, index_reachable)
        /\ UNCHANGED <<config, engine, index_reachable, resume_collection, api_vars, run>>

FindSimilarResumes ==
    \E job_text \in IndexTexts :
        /\ call.op = "none"
        /\ engine = "ready"
        /\ call' = [op |-> "find_similar_resumes", text |-> job_text]
        /\ result' = find_similar_resumes(resume_collection, job_text, 10, index_reachable)
        /\ UNCHANGED <<config, index_vars, api_vars, run>>

FindSimilarJobs ==
    \E resume_text \in IndexTexts :
        /\ call.op = "none"
        /\ engine = "ready"
        /\ call' = [op |-> "find_similar_jobs", text |-> resume_text]
        /\ result' = find_similar_jobs(job_collection, resume_text, 10, index_reachable)
        /\ UNCHANGED <<config, index_vars, api_vars, run>>

NextIndex ==
    \/ Construct
    \/ IndexFails
    \/ IndexRecovers
    \/ StoreResumeEmbedding
    \/ StoreJobEmbedding
    \/ FindSimilarResumes
    \/ FindSimilarJobs
    \/ CalculateSemanticSimilarity
    \/ Return

SpecIndex == InitIndex /\ [][NextIndex]_vars

\* ------------------------------------------------------------------------
\* main.py: the evaluation endpoints and their background tasks
\* ------------------------------------------------------------------------
\* bound: the background tasks that wait to run
MaxTasks == 2

\* the job descriptions and resumes of the database, by id (extracted_text)
JobTable == [job_id \in {1} |-> D_JOB]
ResumeTable == [resume_id \in {1, 2} |-> IF resume_id = 1 THEN D_JOBU ELSE D_AZURE]

\* the ids of a request: those of the database and one that is in no table
RequestJobIds == DOMAIN JobTable \cup {9}
RequestResumeIds == DOMAIN ResumeTable \cup {9}

\* JobDescriptionCRUD.get_by_id / ResumeCRUD.get_by_id: the row, None when there is none
HasRow(table, id) == id \in DOMAIN table

GetById(table, id) == [id |-> id, extracted_text |-> table[id]]

\* ResumeCRUD.get_all: the rows by id
RECURSIVE IdsFrom(_, _)
IdsFrom(table, id) ==
    IF \A other \in DOMAIN table : other < id THEN << >>
    ELSE (IF id \in DOMAIN table THEN <<id>> ELSE << >>) \o IdsFrom(table, id + 1)

GetAllIds(table) == IdsFrom(table, 1)

\* EvaluationCRUD.get_by_job_and_resume: the first row of the pair, or None
MatchingRows(stored, job_id, resume_id) ==
    {i \in 1..Len(stored) :
        stored[i].job_description_id = job_id /\ stored[i].resume_id = resume_id}

HasEvaluation(stored, job_id, resume_id) == MatchingRows(stored, job_id, resume_id) # {}

GetByJobAndResume(stored, job_id, resume_id) ==
    stored[CHOOSE i \in MatchingRows(stored, job_id, resume_id) :
               \A j \in MatchingRows(stored, job_id, resume_id) : i <= j]

\* EvaluationCRUD.create: a new row with the next id
CreateEvaluation(stored, evaluation_data) ==
    Append(stored, [id |-> Len(stored) + 1] @@ evaluation_data)

\* SystemLogCRUD.create_log
CreateLog(logged, entry) == Append(logged, entry)

\* lines 478-498: the scores of the row (the list fields are copies of the result's)
EvaluationData(job_id, resume_id, results) ==
    [job_description_id |-> job_id,
     resume_id |-> resume_id,
     hard_match_score |-> results.hard_match_results.hard_match_score,
     semantic_match_score |-> results.semantic_match_results.semantic_match_score,
     combined_score |-> results.combined_score,
     score_percentage |-> results.score_percentage,
     suitability |-> results.suitability]

CompletedLog(evaluation_id, job_id, resume_id, results) ==
    [action |-> "evaluation_completed",
     resource_id |-> evaluation_id,
     job_id |-> job_id,
     resume_id |-> resume_id,
     score |-> results.score_percentage,
     suitability |-> results.suitability]

\* a task that reads the scores with defaults and saves a row for the error dict as
\* well, for comparison with the subscripts of lines 481-482
SaveEvaluationAlways(db, job_id, resume_id, results) ==
    [stored |-> CreateEvaluation(db.stored,
                                 [job_description_id |-> job_id,
                                  resume_id |-> resume_id,
                                  hard_match_score |-> Zero,
                                  semantic_match_score |-> Zero,
                                  combined_score |-> results.combined_score,
                                  score_percentage |-> results.score_percentage,
                                  suitability |-> results.suitability]),
     logged |-> CreateLog(db.logged,
                          CompletedLog(Len(db.stored) + 1, job_id, resume_id, results))]

\* lines 500-516, and the except branch of lines 520-521:
\* results['hard_match_results']['hard_match_score'] raises KeyError on the {} of the
\* error dict, before anything is saved
SaveEvaluation(db, job_id, resume_id, results) ==
    IF results.hard_match_results = EmptyDict \/ results.semantic_match_results = EmptyDict
    THEN db
    ELSE [stored |-> CreateEvaluation(db.stored, EvaluationData(job_id, resume_id, results)),
          logged |-> CreateLog(db.logged,
                               CompletedLog(Len(db.stored) + 1, job_id, resume_id, results))]

perform_evaluation(db, job_id, resume_id, job_text, resume_text, fault, settings) ==
    SaveEvaluation(db, job_id, resume_id,
                   calculate_combined_score(resume_text, job_text, fault, settings))

\* a loop body that evaluates without looking for an existing evaluation, for
\* comparison with lines 537-539
EvaluateResumeUnchecked(db, job, resume_id, fault, settings) ==
    IF ~HasRow(ResumeTable, resume_id) THEN db
    ELSE perform_evaluation(db, job.id, resume_id, job.extracted_text,
                            GetById(ResumeTable, resume_id).extracted_text, fault, settings)

\* lines 534-548: the loop body for one resume id
EvaluateResume(db, job, resume_id, fault, settings) ==
    IF HasEvaluation(db.stored, job.id, resume_id) THEN db
    ELSE IF ~HasRow(ResumeTable, resume_id) THEN db
    ELSE perform_evaluation(db, job.id, resume_id, job.extracted_text,
                            GetById(ResumeTable, resume_id).extracted_text, fault, settings)

RECURSIVE EvaluateResumes(_, _, _, _, _)
EvaluateResumes(db, job, resume_ids, faults, settings) ==
    IF resume_ids = << >> THEN db
    ELSE EvaluateResumes(EvaluateResume(db, job, Head(resume_ids), Head(faults), settings),
                         job, Tail(resume_ids), Tail(faults), settings)

perform_batch_evaluation(db, job_id, resume_ids, faults, settings) ==
    IF ~HasRow(JobTable, job_id) THEN db
    ELSE EvaluateResumes(db, GetById(JobTable, job_id), resume_ids, faults, settings)

\* the failures of one background evaluation
TaskFaults == {"none", "fusion"}

EvaluationTask(job_id, resume_id) ==
    [kind |-> "evaluation", job_id |-> job_id, resume_id |-> resume_id,
     job_text |-> JobTable[job_id], resume_text |-> ResumeTable[resume_id]]

BatchTask(job_id, resume_ids) ==
    [kind |-> "batch", job_id |-> job_id, resume_ids |-> resume_ids]

Without(queue, i) == SubSeq(queue, 1, i - 1) \o SubSeq(queue, i + 1, Len(queue))

InitApi ==
    /\ config = DefaultConfig
    /\ call = [op |-> "none"]
    /\ result = [path |-> "none"]
    /\ engine = "ready"
    /\ index_reachable = TRUE
    /\ resume_collection = << >>
    /\ job_collection = << >>
    /\ evaluations = << >>
    /\ logs = << >>
    /\ tasks = << >>
    /\ run = Idle

\* POST /api/evaluations/evaluate
EvaluateNotFound ==
    \E job_id \in RequestJobIds, resume_id \in RequestResumeIds :
        /\ call.op = "none"
        /\ ~HasRow(JobTable, job_id) \/ ~HasRow(ResumeTable, resume_id)
        /\ call' = [op |-> "evaluate", job_id |-> job_id, resume_id |-> resume_id]
        /\ result' = [path |-> "404"]
        /\ UNCHANGED <<config, index_vars, api_vars, run>>

EvaluateExisting ==
    \E job_id \in DOMAIN JobTable, resume_id \in DOMAIN ResumeTable :
        /\ call.op = "none"
        /\ HasEvaluation(evaluations, job_id, resume_id)
        /\ call' = [op |-> "evaluate", job_id |-> job_id, resume_id |-> resume_id]
        /\ result' = [path |-> "exists",
                      evaluation_id |-> GetByJobAndResume(evaluations, job_id, resume_id).id]
        /\ UNCHANGED <<config, index_vars, api_vars, run>>

EvaluateStarted ==
    \E job_id \in DOMAIN JobTable, resume_id \in DOMAIN ResumeTable :
        /\ call.op = "none"
        /\ ~HasEvaluation(evaluations, job_id, resume_id)
        /\ Len(tasks) < MaxTasks
        /\ call' = [op |-> "evaluate", job_id |-> job_id, resume_id |-> resume_id]
        /\ result' = [path |-> "started"]
        /\ tasks' = Append(tasks, EvaluationTask(job_id, resume_id))
        /\ UNCHANGED <<config, index_vars, evaluations, logs, run>>

\* POST /api/evaluations/batch-evaluate
BatchEvaluateNotFound ==
    \E job_id \in RequestJobIds :
        /\ call.op = "none"
        /\ ~HasRow(JobTable, job_id)
        /\ call' = [op |-> "batch_evaluate", job_id |-> job_id]
        /\ result' = [path |-> "404"]
        /\ UNCHANGED <<config, index_vars, api_vars, run>>

BatchEvaluateStarted ==
    \E job_id \in DOMAIN JobTable :
        /\ call.op = "none"
        /\ Len(tasks) < MaxTasks
        /\ call' = [op |-> "batch_evaluate", job_id |-> job_id]
        /\ result' = [path |-> "started"]
        /\ tasks' = Append(tasks, BatchTask(job_id, GetAllIds(ResumeTable)))
        /\ UNCHANGED <<config, index_vars, evaluations, logs, run>>

\* lines 298-320: the answer of POST /api/evaluations/evaluate
EvaluateAnswer(stored, job_id, resume_id) ==
    IF ~HasRow(JobTable, job_id) \/ ~HasRow(ResumeTable, resume_id) THEN "404"
    ELSE IF HasEvaluation(stored, job_id, resume_id) THEN "exists"
    ELSE "started"

\* a background task runs once its request has been answered; the tasks of different
\* requests run in any order, each without a suspension point
PerformEvaluation ==
    \E i \in 1..Len(tasks), fault \in TaskFaults :
        /\ call.op = "none"
        /\ tasks[i].kind = "evaluation"
        /\ call' = [op |-> "perform_evaluation", job_id |-> tasks[i].job_id,
                    resume_id |-> tasks[i].resume_id, fault |-> fault]
        /\ result' = [path |-> "returned"]
        /\ evaluations' = perform_evaluation([stored |-> evaluations, logged |-> logs],
                                             tasks[i].job_id, tasks[i].resume_id,
                                             tasks[i].job_text, tasks[i].resume_text,
                                             fault, config).stored
        /\ logs' = perform_evaluation([stored |-> evaluations, logged |-> logs],
                                      tasks[i].job_id, tasks[i].resume_id,
                                      tasks[i].job_text, tasks[i].resume_text,
                                      fault, config).logged
        /\ tasks' = Without(tasks, i)
        /\ UNCHANGED <<config, index_vars, run>>

PerformBatchEvaluation ==
    \E i \in 1..Len(tasks) :
        /\ call.op = "none"
        /\ tasks[i].kind = "batch"
        /\ \E faults \in [1..Len(tasks[i].resume_ids) -> TaskFaults] :
            /\ call' = [op |-> "perform_batch_evaluation", job_id |-> tasks[i].job_id,
                        resume_ids |-> tasks[i].resume_ids, faults |-> faults]
            /\ evaluations' = perform_batch_evaluation([stored |-> evaluations, logged |-> logs],
                                                       tasks[i].job_id, tasks[i].resume_ids,
                                                       faults, config).stored
            /\ logs' = perform_batch_evaluation([stored |-> evaluations, logged |-> logs],
                                                tasks[i].job_id, tasks[i].resume_ids,
                                                faults, config).logged
        /\ result' = [path |-> "returned"]
        /\ tasks' = Without(tasks, i)
        /\ UNCHANGED <<config, index_vars, run>>

NextApi ==
    \/ EvaluateNotFound
    \/ EvaluateExisting
    \/ EvaluateStarted
    \/ BatchEvaluateNotFound
    \/ BatchEvaluateStarted
    \/ PerformEvaluation
    \/ PerformBatchEvaluation
    \/ Return

SpecApi == InitApi /\ [][NextApi]_vars

\* ------------------------------------------------------------------------
\* batch_process_resumes, one provider call at a time
\* ------------------------------------------------------------------------
\* bound: the resumes of a batch that is followed call by call
MaxLive == 2

LiveCandidates == {r \in Candidates : r.id \in {"A", "B", "D"}}

LiveBatches ==
    {s \in SeqsUpTo(LiveCandidates, MaxLive) : \A i, j \in 1..Len(s) : s[i].id = s[j].id => i = j}

\* the position in the batch: the resumes still to score, the results so far, whether
\* model.encode raised for the current resume, and the advisor's answer for it
Position(pc, pending, results, fault, advice) ==
    [pc |-> pc, pending |-> pending, results |-> results, fault |-> fault, advice |-> advice]

\* the first provider call of a resume, or the sort when no resume is left
NextPosition(pending, results) ==
    Position(IF pending = << >> THEN "sort" ELSE "embedding", pending, results, "none", << >>)

\* after the similarity: generate_improvement_suggestions is called when the OpenAI
\* service is available (line 284)
AfterEmbedding(position, fault, openai_available) ==
    [position EXCEPT !.pc = IF openai_available THEN "advisor" ELSE "append", !.fault = fault]

\* feedback['ai_improvement_suggestions'] = ai_suggestions
WithAdvice(match_results, advice, openai_available) ==
    IF match_results.path = "normal" /\ openai_available
    THEN [match_results EXCEPT !.feedback.ai_improvement_suggestions = advice]
    ELSE match_results

\* the result of the current resume, appended (lines 343-356)
AppendScored(position, job_text, settings) ==
    AppendResult(position.results,
                 WithAdvice(calculate_combined_score(Head(position.pending).text, job_text,
                                                     position.fault, settings),
                            position.advice, settings.openai_available),
                 Head(position.pending))

InitLive ==
    /\ config \in {DefaultConfig, [DefaultConfig EXCEPT !.openai_available = TRUE]}
    /\ call = [op |-> "none"]
    /\ result = [path |-> "none"]
    /\ engine = "ready"
    /\ index_reachable = TRUE
    /\ resume_collection = << >>
    /\ job_collection = << >>
    /\ evaluations = << >>
    /\ logs = << >>
    /\ tasks = << >>
    /\ run = Idle

StartBatch ==
    \E resume_data \in LiveBatches :
        /\ call.op = "none"
        /\ run = Idle
        /\ call' = [op |-> "batch_process_resumes", job_text |-> D_JOB,
                    resume_data |-> resume_data]
        /\ run' = NextPosition(resume_data, << >>)
        /\ UNCHANGED <<config, result, index_vars, api_vars>>

\* model.encode answers (embedding_service.py line 69)
EmbeddingReturns ==
    /\ run.pc = "embedding"
    /\ run' = AfterEmbedding(run, "none", config.openai_available)
    /\ UNCHANGED <<engine_vars, index_vars, api_vars>>

\* model.encode raises: the except branch of generate_embedding
EmbeddingRaises ==
    /\ run.pc = "embedding"
    /\ run' = AfterEmbedding(run, "encode", config.openai_available)
    /\ UNCHANGED <<engine_vars, index_vars, api_vars>>

\* self.chat_model(messages) answers in generate_improvement_suggestions
AdvisorReturns ==
    /\ run.pc = "advisor"
    /\ run' = [run EXCEPT !.pc = "analyst", !.advice = AdvisorSuggestions]
    /\ UNCHANGED <<engine_vars, index_vars, api_vars>>

\* self.chat_model(messages) raises: the except branch of openai_service.py 135-137
AdvisorRaises ==
    /\ run.pc = "advisor"
    /\ run' = [run EXCEPT !.pc = "analyst", !.advice = AdvisorError]
    /\ UNCHANGED <<engine_vars, index_vars, api_vars>>

\* self.chat_model(messages) answers or raises in analyze_resume_job_match; both
\* give a dict under insights['openai_analysis']
AnalystAnswers ==
    /\ run.pc = "analyst"
    /\ run' = [run EXCEPT !.pc = "append"]
    /\ UNCHANGED <<engine_vars, index_vars, api_vars>>

\* the steps of the engine itself
AppendCandidate ==
    /\ run.pc = "append"
    /\ run' = NextPosition(Tail(run.pending), AppendScored(run, call.job_text, config))
    /\ UNCHANGED <<engine_vars, index_vars, api_vars>>

SortAndReturn ==
    /\ run.pc = "sort"
    /\ result' = SortDescending(run.results)
    /\ run' = [run EXCEPT !.pc = "returned"]
    /\ UNCHANGED <<config, call, index_vars, api_vars>>

TakeResults ==
    /\ run.pc = "returned"
    /\ call' = [op |-> "none"]
    /\ result' = [path |-> "none"]
    /\ run' = Idle
    /\ UNCHANGED <<config, index_vars, api_vars>>

EngineStep == AppendCandidate \/ SortAndReturn \/ TakeResults

ProviderStep ==
    \/ EmbeddingReturns
    \/ EmbeddingRaises
    \/ AdvisorReturns
    \/ AdvisorRaises
    \/ AnalystAnswers

NextLive == StartBatch \/ ProviderStep \/ EngineStep

\* the interpreter runs the engine's own statements; nothing in the code bounds the
\* time a provider takes to answer, so no fairness is assumed of the provider steps
SpecLive == InitLive /\ [][NextLive]_vars /\ WF_vars(EngineStep)

\* ------------------------------------------------------------------------
\* perform_batch_evaluation called with any list of resume ids, one run at a time
\* ------------------------------------------------------------------------
\* bound: the resume ids of one call
MaxResumeIds == 3

ResumeIdLists == SeqsUpTo(RequestResumeIds, MaxResumeIds)

\* one run of perform_batch_evaluation from its first statement to its return; the
\* evaluations of earlier runs are in the table
RunBatchEvaluation ==
    \E job_id \in RequestJobIds, resume_ids \in ResumeIdLists :
        \E faults \in [1..Len(resume_ids) -> TaskFaults] :
            /\ call.op = "none"
            /\ call' = [op |-> "perform_batch_evaluation", job_id |-> job_id,
                        resume_ids |-> resume_ids, faults |-> faults]
            /\ result' = [path |-> "returned"]
            /\ evaluations' = perform_batch_evaluation([stored |-> evaluations, logged |-> logs],
                                                       job_id, resume_ids, faults, config).stored
            /\ logs' = perform_batch_evaluation([stored |-> evaluations, logged |-> logs],
                                                job_id, resume_ids, faults, config).logged
            /\ UNCHANGED <<config, index_vars, tasks, run>>

NextBatch == RunBatchEvaluation \/ Return

SpecBatch == InitApi /\ [][NextBatch]_vars

\* ------------------------------------------------------------------------
\* _generate_feedback on its own
\* ------------------------------------------------------------------------
\* bound: the missing skills of a hard-match result passed to _generate_feedback
MaxMissing == 6

MissingSkillLists == {FirstN(programming_languages, k) : k \in 0..MaxMissing}
MissingCertLists == {FirstN(certifications, k) : k \in 0..2}

\* the scores of the results, in hundredths: around the thresholds of lines 266 and 276
FeedbackScores == {Rat(k, 100) : k \in {0, 39, 40, 49, 50, 100}}

\* the keys of the two results that _generate_feedback reads
HardMatchResults ==
    {[missing_skills |-> ms, missing_certs |-> mc, hard_match_score |-> h] :
        ms \in MissingSkillLists, mc \in MissingCertLists, h \in FeedbackScores}

SemanticMatchResults == {[semantic_match_score |-> s] : s \in FeedbackScores}

InitFeedback == Init /\ config \in {DefaultConfig, [DefaultConfig EXCEPT !.openai_available = TRUE]}

\* the outcomes of the advisor the configuration allows
OutcomesOf(openai_available) ==
    IF openai_available THEN AdvisorOutcomes \ {"unavailable"} ELSE {"unavailable"}

GenerateFeedback ==
    \E hard_match_results \in HardMatchResults, semantic_match_results \in SemanticMatchResults,
       advisor \in OutcomesOf(config.openai_available) :
        /\ call.op = "none"
        /\ call' = [op |-> "_generate_feedback", hard_match_results |-> hard_match_results,
                    semantic_match_results |-> semantic_match_results, advisor |-> advisor]
        /\ result' = Feedback(hard_match_results, semantic_match_results, advisor)
        /\ UNCHANGED <<config, index_vars, api_vars, run>>

NextFeedback == GenerateFeedback \/ Return

SpecFeedback == InitFeedback /\ [][NextFeedback]_vars

\* ------------------------------------------------------------------------
\* the fusion of calculate_combined_score on its own, and the standalone MockAPI
\* ------------------------------------------------------------------------
\* the scores of the two scorers: the hard score is a sum of weighted ratios, the
\* semantic score is (cosine + 1) / 2 of two float embeddings, here in steps of 1e-5
\* around the values that bring the combined score next to 0.7 and 0.4
FusionHardScores == {Zero, Rat(11, 20), One}
FusionSemanticScores == {Rat(k, 100000) : k \in {0, 29992, 30000, 79992, 80000, 100000}}

FusionHardResults ==
    {[path |-> "normal", hard_match_score |-> h, missing_skills |-> << >>, missing_certs |-> << >>] :
        h \in FusionHardScores}

FusionSemanticResults ==
    {[path |-> "normal", semantic_match_score |-> s] : s \in FusionSemanticScores}

\* streamlit_app.py 99-104: the tier MockAPI.evaluate_resume gives a percentage
mock_suitability(score_percentage) ==
    IF RGe(score_percentage, Rat(70, 1)) THEN "High"
    ELSE IF RGe(score_percentage, Rat(40, 1)) THEN "Medium"
    ELSE "Low"

\* lines 186-214 of calculate_combined_score on the results of the two scorers
FuseResults ==
    \E hard_match_results \in FusionHardResults, semantic_match_results \in FusionSemanticResults :
        /\ call.op = "none"
        /\ call' = [op |-> "fuse", hard_match_results |-> hard_match_results,
                    semantic_match_results |-> semantic_match_results]
        /\ result' = Fuse(hard_match_results, semantic_match_results, config)
        /\ UNCHANGED <<config, index_vars, api_vars, run>>

NextFusion == FuseResults \/ Return

SpecFusion == Init /\ [][NextFusion]_vars
\* ------------------------------------------------------------------------
\* Properties
\* ------------------------------------------------------------------------
InUnitInterval(x) == RGe(x, Zero) /\ RLe(x, One)

Clamp01(x) == IF RLt(x, Zero) THEN Zero ELSE IF RGt(x, One) THEN One ELSE x

Larger(a, b) == IF RGe(a, b) THEN a ELSE b

CombinedCall == call.op = "calculate_combined_score"
HardCall == call.op = "calculate_hard_match_score"
SimilarityCall == call.op = "calculate_semantic_similarity"
FuzzyCall == call.op = "fuzzy_match_skills"
BatchCall == call.op = "batch_process_resumes"

\* the tier the thresholds 0.7 and 0.4 give a score, lower bounds inclusive
TierAgrees(r) ==
    /\ r.suitability \in {"High", "Medium", "Low"}
    /\ (r.suitability = "High") <=> RGe(r.combined_score, Rat(7, 10))
    /\ (r.suitability = "Medium") <=>
           (RGe(r.combined_score, Rat(4, 10)) /\ RLt(r.combined_score, Rat(7, 10)))
    /\ (r.suitability = "Low") <=> RLt(r.combined_score, Rat(4, 10))

\* C1: every result of calculate_combined_score carries exactly one suitability
\* tier, "High" when combined_score >= 0.7, "Medium" when 0.4 <= combined_score < 0.7
\* and "Low" when combined_score < 0.4, so that 0.70 is High and 0.40 is Medium.
C1_SuitabilityTiers == CombinedCall => TierAgrees(result)

\* a combined score of exactly 0.70, reported as High
C1_BoundaryIsHigh ==
    /\ CombinedCall
    /\ result.path = "normal"
    /\ result.combined_score = Rat(7, 10)
    /\ result.suitability = "High"

WeightsSumToOne == config.hard_match_weight + config.semantic_match_weight = 10

WeightedSumOf(r) ==
    RAdd(RAdd(RMul(r.skill_score, Rat(6, 10)), RMul(r.keyword_score, Rat(3, 10))),
         RMul(r.cert_score, Rat(1, 10)))

\* C3: every result of calculate_hard_match_score has hard_match_score equal to
\* skill_score*0.6 + keyword_score*0.3 + cert_score*0.1 clamped to [0,1]: it is
\* never below 0, never above 1, and is the weighted sum when that is within [0,1].
C3_HardScoreIsClampedWeightedSum ==
    HardCall => /\ InUnitInterval(result.hard_match_score)
                /\ result.hard_match_score = Clamp01(WeightedSumOf(result))

\* a hard match with three different sub-scores, all counted
C3_MixedSubScores ==
    /\ HardCall
    /\ result.path = "normal"
    /\ RGt(result.skill_score, result.keyword_score)
    /\ RGt(result.keyword_score, result.cert_score)
    /\ result.hard_match_score = WeightedSumOf(result)
    /\ RGt(result.hard_match_score, Zero)

JobSkillsOfCall == SkillsOf[call.job_text][config.hash_order]
JobKeywordsOfCall == KeywordsOf[call.job_text][config.nlp]
JobCertsOfCall == CertsOf[call.job_text]

ExactSkillCoverage == Rat(Cardinality(result.skill_matches), Len(JobSkillsOfCall))
FuzzySkillCoverage ==
    LET total == SumSimilarity(result.fuzzy_skill_matches)
    IN  Rat(total.n, total.d * Len(JobSkillsOfCall))

\* C4: on the normal path, with a non-empty job skill list, skill_score is the larger
\* of the exact coverage |skill_matches| / |job_skills| and 0.8 times the fuzzy coverage
\* (sum of the fuzzy similarities) / |job_skills| (never their sum), and is within [0,1].
C4_SkillScoreIsBestOfExactAndFuzzy ==
    (HardCall /\ result.path = "normal" /\ JobSkillsOfCall # << >>) =>
        /\ result.skill_score = Larger(ExactSkillCoverage, RMul(FuzzySkillCoverage, Rat(8, 10)))
        /\ InUnitInterval(result.skill_score)

\* both strategies score: an exact match and fuzzy matches on the same job skills
C4_BothStrategiesScore ==
    /\ HardCall
    /\ result.path = "normal"
    /\ JobSkillsOfCall # << >>
    /\ RGt(ExactSkillCoverage, Zero)
    /\ RGt(FuzzySkillCoverage, Zero)
    /\ RLt(result.skill_score, One)

\* the position of a candidate in the input of the batch call
InputPosition(id) == CHOOSE k \in 1..Len(call.resume_data) : call.resume_data[k].id = id

\* C5: the results of batch_process_resumes are in descending order of combined_score,
\* and two results of equal combined_score are in the order of their candidates in
\* the input sequence.
C5_BatchSortedDescendingStable ==
    BatchCall =>
        \A i, j \in 1..Len(result) :
            i < j => /\ RGe(result[i].combined_score, result[j].combined_score)
                     /\ result[i].combined_score = result[j].combined_score =>
                            InputPosition(result[i].resume_id) < InputPosition(result[j].resume_id)

\* a batch with a tie between two candidates, ranked above a candidate that came
\* before them in the input
C5_TieAndReordering ==
    /\ BatchCall
    /\ Len(result) = 3
    /\ result[1].combined_score = result[2].combined_score
    /\ RGt(result[2].combined_score, result[3].combined_score)
    /\ InputPosition(result[3].resume_id) = 1

\* the candidates of the batch call whose evaluation fails: a step raises inside
\* their evaluation, or they carry no text to extract from
Fails(resume) == resume.fault # "none" \/ Raises(resume.text)

EntriesOf(id) == {i \in 1..Len(result) : result[i].resume_id = id}

\* C6: a candidate whose scoring raises is skipped by batch_process_resumes: the
\* output has no entry carrying its id.
C6_FailingCandidateSkipped ==
    BatchCall =>
        \A k \in 1..Len(call.resume_data) :
            Fails(call.resume_data[k]) => EntriesOf(call.resume_data[k].id) = {}

\* what the engine returns for the candidate evaluated alone against the job text
Alone(resume) == calculate_combined_score(resume.text, call.job_text, "none", config)

SameScores(entry, r) ==
    /\ entry.combined_score = r.combined_score
    /\ entry.score_percentage = r.score_percentage
    /\ entry.suitability = r.suitability
    /\ entry.hard_match_results = r.hard_match_results
    /\ entry.semantic_match_results = r.semantic_match_results

BestScore(job_skill) ==
    LET scores == {Scores[<<job_skill, call.resume_skills[i]>>] : i \in 1..Len(call.resume_skills)}
    IN  CHOOSE s \in scores : \A t \in scores : s >= t

\* C8: fuzzy_match_skills returns at most one entry per job skill; every key is one
\* of job_skills, every matched_skill one of resume_skills, every similarity times 100
\* is at least the threshold; a job skill has no entry when resume_skills is empty or
\* its best score is below the threshold.
C8_FuzzyMatchesWellFormed ==
    FuzzyCall =>
        /\ \A i, j \in 1..Len(result) : result[i].key = result[j].key => i = j
        /\ \A i \in 1..Len(result) :
               /\ result[i].key \in Range(call.job_skills)
               /\ result[i].value.matched_skill \in Range(call.resume_skills)
               /\ RGe(RMul(result[i].value.similarity, Rat(100, 1)), Rat(call.threshold, 1))
        /\ \A job_skill \in Range(call.job_skills) :
               (call.resume_skills = << >> \/ BestScore(job_skill) < call.threshold) =>
                   job_skill \notin DictKeys(result)

\* a call where one job skill is matched by another spelling and one has no match
C8_OneMatchedOneRejected ==
    /\ FuzzyCall
    /\ Len(call.job_skills) = 2
    /\ call.resume_skills # << >>
    /\ Len(result) = 1
    /\ result[1].value.matched_skill # result[1].key
    /\ \E job_skill \in Range(call.job_skills) : BestScore(job_skill) < call.threshold

NoExtractionFailure ==
    call.fault = "none" /\ ~Raises(call.resume_text) /\ ~Raises(call.job_text)

\* C9: when no extraction step fails, calculate_hard_match_score returns on the normal
\* path, with skill_score 0 when the job has no skill, keyword_score 0 when it has
\* no keyword and cert_score 0 when it has no certification.
C9_EmptyJobSetsScoreZero ==
    (HardCall /\ NoExtractionFailure) =>
        /\ result.path = "normal"
        /\ JobSkillsOfCall = << >> => result.skill_score = Zero
        /\ JobKeywordsOfCall = {} => result.keyword_score = Zero
        /\ JobCertsOfCall = << >> => result.cert_score = Zero

\* a resume with skills, keywords and a certification against a job with none
C9_EmptyJobAgainstFullResume ==
    /\ HardCall
    /\ NoExtractionFailure
    /\ JobSkillsOfCall = << >>
    /\ JobKeywordsOfCall = {}
    /\ JobCertsOfCall = << >>
    /\ SkillsOf[call.resume_text][config.hash_order] # << >>
    /\ CertsOf[call.resume_text] # << >>
    /\ result.path = "normal"
    /\ result.hard_match_score = Zero

BothEmbeddingsZero ==
    /\ preprocess_text(call.text1) = << >>
    /\ preprocess_text(call.text2) = << >>

\* C10: calculate_semantic_similarity returns 0.0 when both texts are empty or of
\* whitespace only, that is when both embeddings are the zero vector.
C10_EmptyTextsSimilarityZero ==
    (SimilarityCall /\ BothEmbeddingsZero) => result = Zero

EmbeddingsCall == call.op = "similarity_of_embeddings"

DotOfCall == Dot(call.embedding1, call.embedding2)
NormsOfCall == Norm(call.embedding1) * Norm(call.embedding2)

\* C11: on every pair of embeddings with a defined cosine, calculate_semantic_similarity
\* returns (cos + 1) / 2, which is 1 for cos = 1, 1/2 for cos = 0 and 0 for cos = -1;
\* the returned value is within [0,1] on every pair, and is 0 when an exception is caught.
C11_SimilarityIsRescaledCosine ==
    EmbeddingsCall =>
        /\ InUnitInterval(result)
        /\ call.fault = "similarity" => result = Zero
        /\ (call.fault = "none" /\ NormsOfCall # 0) =>
               /\ 2 * result.n * NormsOfCall = result.d * (DotOfCall + NormsOfCall)
               /\ DotOfCall = NormsOfCall => result = One
               /\ DotOfCall = 0 => result = Rat(1, 2)
               /\ DotOfCall = -NormsOfCall => result = Zero

\* two opposite vectors: the cosine is -1 and the similarity 0
C11_OppositeVectors ==
    /\ EmbeddingsCall
    /\ call.fault = "none"
    /\ NormsOfCall # 0
    /\ DotOfCall = -NormsOfCall
    /\ result = Zero

ExtractionFails == call.fault = "extraction" \/ Raises(call.resume_text) \/ Raises(call.job_text)

\* C12: when an extraction step raises inside calculate_hard_match_score, the call
\* returns the all-zero result: hard_match_score, skill_score, keyword_score and
\* cert_score are 0 and every match list and missing list is empty.
C12_ExtractionFailureGivesAllZero ==
    (HardCall /\ ExtractionFails) =>
        /\ result.hard_match_score = Zero
        /\ result.skill_score = Zero
        /\ result.keyword_score = Zero
        /\ result.cert_score = Zero
        /\ result.skill_matches = {}
        /\ result.keyword_matches = {}
        /\ result.cert_matches = {}
        /\ result.fuzzy_skill_matches = << >>
        /\ result.missing_skills = << >>
        /\ result.missing_certs = << >>

\* an extraction fails on a job with skills and a certification
C12_FailureOnFullJob ==
    /\ HardCall
    /\ call.fault = "extraction"
    /\ ~Raises(call.job_text)
    /\ JobSkillsOfCall # << >>
    /\ JobCertsOfCall # << >>
    /\ result.hard_match_score = Zero
    /\ result.missing_skills = << >>

\* the dict calculate_hard_match_score returns: the keys of lines 77-88 and 92-103
HardDict(r) ==
    [hard_match_score |-> r.hard_match_score,
     skill_matches |-> r.skill_matches,
     keyword_matches |-> r.keyword_matches,
     cert_matches |-> r.cert_matches,
     fuzzy_skill_matches |-> r.fuzzy_skill_matches,
     missing_skills |-> r.missing_skills,
     missing_certs |-> r.missing_certs,
     skill_score |-> r.skill_score,
     keyword_score |-> r.keyword_score,
     cert_score |-> r.cert_score]

\* the dicts of the evaluations in which every step succeeded
ComputedHardDicts ==
    {HardDict(calculate_hard_match_score(resume_text, job_text, "none",
                                         config.nlp, config.hash_order)) :
         resume_text \in Texts \ {None}, job_text \in Texts \ {None}}

\* C13: the returned record tells a defaulted sub-score from a computed one: the dict
\* returned when the hard score was set to 0 by a failure differs from every dict
\* returned by an evaluation in which the hard score was computed.
C13_DefaultedSubScoreIsMarked ==
    (HardCall /\ ExtractionFails) => HardDict(result) \notin ComputedHardDicts

\* C14: a configuration whose two weights do not sum to 1 is rejected when the engine
\* is constructed, so no combined score is computed with such weights.
C14_NoScoreWithUnnormalisedWeights ==
    (CombinedCall /\ result.path = "normal") => WeightsSumToOne


\* ------------------------------------------------------------------------
\* C15
\* ------------------------------------------------------------------------
StoreCall == call.op \in {"store_resume_embedding", "store_job_embedding"}

CollectionOfCall ==
    IF call.op = "store_resume_embedding" THEN resume_collection ELSE job_collection

RecordsOfCall ==
    {i \in 1..Len(CollectionOfCall) : CollectionOfCall[i].id = call.id}

\* the record a store call leaves, were the call an upsert
RecordOfCall ==
    [id |-> call.id, embedding |-> EmbeddingOf[call.text]["none"],
     document |-> FirstN(call.text, DocumentLimit), metadata |-> call.metadata]

\* C15: after store_resume_embedding or store_job_embedding has stored a text for a
\* document id in a reachable store, the collection holds exactly one record for the
\* id, and the record carries the vector, the document and the metadata of that call.
C15_StoreIsUpsert ==
    (StoreCall /\ index_reachable /\ ~Raises(call.text)) =>
        /\ Cardinality(RecordsOfCall) = 1
        /\ \A i \in RecordsOfCall : CollectionOfCall[i] = RecordOfCall

\* ------------------------------------------------------------------------
\* C16
\* ------------------------------------------------------------------------
\* C16: once the services have been constructed, an unreachable vector store does not
\* stop the similarity of two texts from being computed.
C16_SimilarityWithoutIndex ==
    (engine # "absent" /\ ~index_reachable /\ call.op = "none") =>
        ENABLED CalculateSemanticSimilarity

\* ------------------------------------------------------------------------
\* C17
\* ------------------------------------------------------------------------
\* C17: after any interleaving of evaluate requests, batch-evaluate requests and their
\* background tasks, the stored evaluations hold at most one record for each pair of
\* job_description_id and resume_id.
C17_OneEvaluationPerPair ==
    \A i \in 1..Len(evaluations), j \in 1..Len(evaluations) :
        (/\ evaluations[i].job_description_id = evaluations[j].job_description_id
         /\ evaluations[i].resume_id = evaluations[j].resume_id) => i = j

\* ------------------------------------------------------------------------
\* C18
\* ------------------------------------------------------------------------
\* C18: an evaluation in progress never depends on a provider's answer to go on: in
\* every state of a batch that has not returned, a step of the engine itself is enabled
\* (while it waits for model.encode or for the LLM, that step is the timeout that
\* defaults the sub-score), so the batch completes even when a provider never answers.
C18_EvaluationNeverWaitsForever ==
    run.pc # "idle" => ENABLED EngineStep

\* ------------------------------------------------------------------------
\* C19
\* ------------------------------------------------------------------------
\* the score of the job text against itself
SelfMatchOfCall ==
    calculate_hard_match_score(call.job_text, call.job_text, "none", config.nlp,
                               config.hash_order)

\* the resume of the call shares no skill, keyword or certification with the job
DisjointFeaturesOfCall ==
    /\ Range(SkillsOf[call.resume_text][config.hash_order])
           \cap Range(SkillsOf[call.job_text][config.hash_order]) = {}
    /\ KeywordsOf[call.resume_text][config.nlp] \cap KeywordsOf[call.job_text][config.nlp] = {}
    /\ Range(CertsOf[call.resume_text]) \cap Range(CertsOf[call.job_text]) = {}

FeedbackCall == call.op = "_generate_feedback"

\* the entries each rule contributes, from the arguments of the call
SkillEntries ==
    IF Len(call.hard_match_results.missing_skills) > 0
    THEN <<[text |-> "Consider adding these technical skills",
            names |-> [i \in 1..(IF Len(call.hard_match_results.missing_skills) < 5
                                 THEN Len(call.hard_match_results.missing_skills) ELSE 5) |->
                          call.hard_match_results.missing_skills[i]]]>>
    ELSE << >>

CertEntries ==
    IF Len(call.hard_match_results.missing_certs) > 0
    THEN <<[text |-> "Consider obtaining these certifications",
            names |-> call.hard_match_results.missing_certs]>>
    ELSE << >>

SemanticEntries ==
    IF 2 * call.semantic_match_results.semantic_match_score.n
           < call.semantic_match_results.semantic_match_score.d
    THEN <<Rephrase, Quantify>>
    ELSE << >>

HardEntries ==
    IF 5 * call.hard_match_results.hard_match_score.n
           < 2 * call.hard_match_results.hard_match_score.d
    THEN <<AcquireSkills, IncludeProjects>>
    ELSE << >>

\* C20: improvement_suggestions of _generate_feedback is, in this order, the
\* missing-skills suggestion iff missing_skills is non-empty (with its first 5 names),
\* the certification suggestion iff missing_certifications is non-empty (with all its
\* names), the two rephrasing suggestions iff semantic_match_score < 0.5 and the two
\* skills/projects suggestions iff hard_match_score < 0.4; a score of exactly 0.5
\* (0.4) does not trigger its rule.
C20_SuggestionsInRuleOrder ==
    FeedbackCall =>
        result.improvement_suggestions
            = SkillEntries \o CertEntries \o SemanticEntries \o HardEntries

\* both scores on their thresholds, six missing skills, two missing certifications
C20_BothScoresOnThreshold ==
    /\ FeedbackCall
    /\ call.semantic_match_results.semantic_match_score = Rat(1, 2)
    /\ call.hard_match_results.hard_match_score = Rat(2, 5)
    /\ Len(call.hard_match_results.missing_skills) = 6
    /\ Len(call.hard_match_results.missing_certs) = 2
    /\ Len(result.improvement_suggestions) = 2
    /\ Len(result.improvement_suggestions[1].names) = 5

\* ------------------------------------------------------------------------
\* C21
\* ------------------------------------------------------------------------
\* the feedback of the same two results without the advisor
FeedbackWithoutAdvisor ==
    Feedback(call.hard_match_results, call.semantic_match_results, "unavailable")

\* C21: for the same hard and semantic results, missing_skills, missing_certifications
\* and improvement_suggestions of _generate_feedback are the same whether the LLM
\* advisor is unavailable, answers or raises; what the advisor returns is found under
\* ai_improvement_suggestions only, a key that is absent without the advisor.
C21_AdvisorLeavesFeedbackAlone ==
    FeedbackCall =>
        /\ result.missing_skills = FeedbackWithoutAdvisor.missing_skills
        /\ result.missing_certifications = FeedbackWithoutAdvisor.missing_certifications
        /\ result.improvement_suggestions = FeedbackWithoutAdvisor.improvement_suggestions
        /\ result.has_ai_improvement_suggestions = (call.advisor # "unavailable")
        /\ \A i \in 1..Len(result.improvement_suggestions) :
               result.improvement_suggestions[i].text
                   \notin Range(AdvisorSuggestions) \cup Range(AdvisorError)

\* the advisor raised, and the deterministic rules had something to say
C21_AdvisorRaised ==
    /\ FeedbackCall
    /\ call.advisor = "raises"
    /\ result.ai_improvement_suggestions = AdvisorError
    /\ Len(result.improvement_suggestions) = 6

\* ------------------------------------------------------------------------
\* C22
\* ------------------------------------------------------------------------
PreprocessCall == call.op = "preprocess_text"

\* the '.', '!' and '?' of a text that end a sentence: followed by whitespace or by
\* the end of the text
SentenceEnds(text) ==
    IF text = None THEN {}
    ELSE {i \in 1..Len(text) :
             /\ text[i] \in {".", "!", "?"}
             /\ (i = Len(text) \/ IsSpace(text[i + 1]))}

Occurrences(text, chars) == Cardinality({i \in 1..Len(text) : text[i] \in chars})

\* C22: preprocess_text keeps the sentence-ending punctuation: every '.', '!' or '?'
\* that ends a sentence of the input is still present in the output.
C22_SentenceEndsKept ==
    PreprocessCall =>
        Occurrences(result.text, {".", "!", "?"}) >= Cardinality(SentenceEnds(call.text))

\* ------------------------------------------------------------------------
\* C23
\* ------------------------------------------------------------------------
ResumeSkillSetOfCall == Range(SkillsOf[call.resume_text][config.hash_order])
JobSkillSetOfCall == Range(SkillsOf[call.job_text][config.hash_order])
ResumeCertSetOfCall == Range(CertsOf[call.resume_text])
JobCertSetOfCall == Range(CertsOf[call.job_text])

\* matched and missing are the two parts of the job's set, missing without repetition
Partitions(matched, missing, job_set, resume_set) ==
    /\ matched = job_set \cap resume_set
    /\ Range(missing) = job_set \ resume_set
    /\ Len(missing) = Cardinality(Range(missing))
    /\ matched \cap Range(missing) = {}
    /\ matched \cup Range(missing) = job_set

\* the skill lists of the example: job {python, aws, docker}, candidate {python, azure}
ExampleJobSkills == <<<<"p","y","t","h","o","n">>, <<"a","w","s">>, <<"d","o","c","k","e","r">>>>
ExampleResumeSkills == <<<<"p","y","t","h","o","n">>, <<"a","z","u","r","e">>>>

ExampleHardMatch(order) ==
    HardMatch(ExampleResumeSkills, ExampleJobSkills, {}, {}, << >>, << >>, order)

C24_FuzzyOnlyForInexactSkills ==
    (HardCall /\ result.path = "normal") =>
        result.skill_matches \cap DictKeys(result.fuzzy_skill_matches) = {}

\* ------------------------------------------------------------------------
\* C25
\* ------------------------------------------------------------------------
\* C25: a job skill is reported as missing exactly when the fuzzy matcher found no
\* match for it: in every hard match result, missing_skills is the set of the job
\* skills that have no entry in fuzzy_skill_matches.
C25_MissingIsWithoutFuzzyEntry ==
    (HardCall /\ result.path = "normal") =>
        Range(result.missing_skills) = JobSkillSetOfCall \ DictKeys(result.fuzzy_skill_matches)

\* ------------------------------------------------------------------------
\* C26
\* ------------------------------------------------------------------------
\* the entries of the returned list that carry one of the texts
EntriesWith(texts) ==
    {i \in 1..Len(result.improvement_suggestions) :
        result.improvement_suggestions[i].text \in texts}

\* C26: each of the four rules of _generate_feedback appends at most one suggestion,
\* so improvement_suggestions never has more than four entries.
C26_AtMostFourSuggestions ==
    FeedbackCall =>
        /\ Cardinality(EntriesWith({AddSkills(<< >>).text})) <= 1
        /\ Cardinality(EntriesWith({ObtainCerts(<< >>).text})) <= 1
        /\ Cardinality(EntriesWith({Rephrase.text, Quantify.text})) <= 1
        /\ Cardinality(EntriesWith({AcquireSkills.text, IncludeProjects.text})) <= 1
        /\ Len(result.improvement_suggestions) <= 4

\* ------------------------------------------------------------------------
\* C27
\* ------------------------------------------------------------------------
SemanticOfCall == result.semantic_match_results

\* the result of the same call without the spaCy pipeline
SemanticWithoutSentences ==
    calculate_semantic_match_score(call.resume_text, call.job_text, call.fault, FALSE)

\* an alignment pairs one of the first five job sentences with a resume sentence of
\* maximal similarity, which is above 0.3
IsAlignment(entry) ==
    /\ entry.job_sentence \in Range(FirstN(SentencesOf[call.job_text], 5))
    /\ entry.resume_sentence \in Range(SentencesOf[call.resume_text])
    /\ entry.similarity
           = calculate_semantic_similarity(entry.job_sentence, entry.resume_sentence, call.fault)
    /\ \A other \in Range(SentencesOf[call.resume_text]) :
           RLe(calculate_semantic_similarity(entry.job_sentence, other, call.fault),
               entry.similarity)
    /\ RGt(entry.similarity, Rat(3, 10))

AlignmentsAreDiagnostic ==
    /\ Len(SemanticOfCall.sentence_matches) <= 5
    /\ SemanticOfCall.sentence_matches # << >> =>
           /\ Len(SemanticOfCall.sentence_matches) <= Len(SentencesOf[call.job_text])
           /\ \A i \in 1..Len(SemanticOfCall.sentence_matches) :
                  IsAlignment(SemanticOfCall.sentence_matches[i])
    /\ ~config.nlp => SemanticOfCall.sentence_matches = << >>

ScoreIsDocumentSimilarity ==
    /\ SemanticOfCall.semantic_match_score
           = calculate_semantic_similarity(call.resume_text, call.job_text, call.fault)
    /\ SemanticOfCall.semantic_match_score = SemanticWithoutSentences.semantic_match_score

\* C27: the sentence alignments of calculate_semantic_match_score are diagnostic only:
\* at most one per job sentence among the first five, each with a resume sentence of
\* maximal similarity above 0.3, none without sentence splitting; and
\* semantic_match_score is the similarity of the two whole documents, the same with
\* and without sentence splitting.
C27_AlignmentsDoNotTouchScore ==
    (CombinedCall /\ result.path = "normal") =>
        /\ AlignmentsAreDiagnostic
        /\ ScoreIsDocumentSimilarity

\* ------------------------------------------------------------------------
\* C28
\* ------------------------------------------------------------------------
FusionCall == call.op = "fuse"

\* C28: the suitability tier agrees with the reported score_percentage: "High" iff
\* score_percentage >= 70, "Medium" iff 40 <= score_percentage < 70, "Low" iff
\* score_percentage < 40, which is the tier MockAPI.evaluate_resume gives the
\* percentage.
C28_TierAgreesWithPercentage ==
    FusionCall =>
        /\ result.suitability = "High" <=> RGe(result.score_percentage, Rat(70, 1))
        /\ result.suitability = "Medium" <=>
               (RGe(result.score_percentage, Rat(40, 1)) /\ RLt(result.score_percentage, Rat(70, 1)))
        /\ result.suitability = "Low" <=> RLt(result.score_percentage, Rat(40, 1))
        /\ result.suitability = mock_suitability(result.score_percentage)

\* ------------------------------------------------------------------------
\* C29
\* ------------------------------------------------------------------------
\* a step of a perform_evaluation task whose scoring returns the error dict
FailedEvaluationStep ==
    /\ call.op = "none"
    /\ call'.op = "perform_evaluation"
    /\ call'.fault = "fusion"

\* C29: perform_evaluation persists nothing when the scoring fails: no Evaluation row
\* and no "evaluation_completed" log entry is created, the stored evaluations are
\* unchanged, the task returns without an exception, and a pair that had no
\* evaluation is still answered "started" by a later evaluate request.
C29_FailedEvaluationStoresNothing ==
    [][FailedEvaluationStep =>
          /\ evaluations' = evaluations
          /\ logs' = logs
          /\ result'.path = "returned"
          /\ Len(tasks') = Len(tasks) - 1
          /\ ~HasEvaluation(evaluations, call'.job_id, call'.resume_id) =>
                 EvaluateAnswer(evaluations', call'.job_id, call'.resume_id) = "started"]_vars

\* a failed evaluation after which the pair has no evaluation, while another pair has
C29_FailedAfterAnotherSucceeded ==
    /\ call.op = "perform_evaluation"
    /\ call.fault = "fusion"
    /\ ~HasEvaluation(evaluations, call.job_id, call.resume_id)
    /\ Len(evaluations) = 1
    /\ Len(logs) = 1

\* ------------------------------------------------------------------------
\* C30
\* ------------------------------------------------------------------------
BatchRunStep == call.op = "none" /\ call'.op = "perform_batch_evaluation"

\* the rows a step has added to the table
NewRows == (Len(evaluations) + 1)..Len(evaluations')

\* C30: a run of perform_batch_evaluation(job_id, resume_ids) without concurrent
\* requests leaves every evaluation that was stored as it is, creates at most one
\* evaluation per resume id of the list (also for an id that is repeated), only for
\* the job of the call, none for a resume id without a resume, none when the job does
\* not exist, and evaluates the remaining resume ids after one evaluation has failed.
C30_BatchRunAddsOnePerMissingPair ==
    [][BatchRunStep =>
          /\ Len(evaluations') >= Len(evaluations)
          /\ SubSeq(evaluations', 1, Len(evaluations)) = evaluations
          /\ \A i \in NewRows :
                 /\ evaluations'[i].job_description_id = call'.job_id
                 /\ evaluations'[i].resume_id \in Range(call'.resume_ids)
                 /\ HasRow(ResumeTable, evaluations'[i].resume_id)
                 /\ ~HasEvaluation(evaluations, call'.job_id, evaluations'[i].resume_id)
                 /\ \A j \in NewRows : evaluations'[j].resume_id = evaluations'[i].resume_id => i = j
          /\ ~HasRow(JobTable, call'.job_id) => evaluations' = evaluations
          /\ \A k \in 1..Len(call'.resume_ids) :
                 (/\ HasRow(JobTable, call'.job_id)
                  /\ HasRow(ResumeTable, call'.resume_ids[k])
                  /\ call'.faults[k] = "none") =>
                     HasEvaluation(evaluations', call'.job_id, call'.resume_ids[k])]_vars

\* a run over a repeated id and an id without a resume, whose first evaluation failed
\* and whose last succeeded, with an evaluation of an earlier run in the table
C30_RepeatedIdAfterFailure ==
    /\ call.op = "perform_batch_evaluation"
    /\ call.resume_ids = <<2, 9, 2>>
    /\ call.faults[1] = "fusion"
    /\ call.faults[3] = "none"
    /\ Len(evaluations) = 2
    /\ evaluations[1].resume_id = 1
    /\ evaluations[2].resume_id = 2
====
